---- MODULE Spec2Model ----
(***************************************************************************)
(* A model of the rope's tree engine (src/src/tree/node.rs): byte-indexed   *)
(* insertion and byte-range removal on a B-tree of text leaves whose nodes  *)
(* are shared through reference-counted handles; of the comparisons, the    *)
(* hashing, the chunk fetch and the conversions of src/src/shared_impl.rs;  *)
(* and of the scanners of src/src/str_utils.rs.                             *)
(*                                                                          *)
(* Text is a sequence of bytes (0..255).  Nodes live in a heap: a function  *)
(* from allocation ids to objects, one object per Arc allocation.  A Node   *)
(* value is the id of its allocation.                                       *)
(***************************************************************************)
EXTENDS Integers, Sequences, FiniteSets, TLC

VARIABLES
    heap,       \* id -> object: the Arc allocations (Text or Children)
    root,       \* handle -> id of its root node (0: the handle holds no tree)
    root_info,  \* handle -> the TextInfo the handle keeps for its root
    last,       \* history: the last call made, its inputs and its outcome
    clean,      \* history: every call so far returned Ok
    nops,       \* number of calls made so far
    args,       \* inputs of the pure functions under check
    result      \* their results

vars == <<heap, root, root_info, last, clean, nops, args, result>>

-----------------------------------------------------------------------------
(* Program constants (the cfg(test) values of tree/mod.rs).                *)

MAX_CHILDREN == 5
MIN_CHILDREN == MAX_CHILDREN \div 2
MAX_BYTES == 9
MIN_BYTES == (MAX_BYTES \div 2) - (MAX_BYTES \div 32)

CR == 13
LF == 10

-----------------------------------------------------------------------------
(* Bounds of the model.                                                     *)

MaxOps == 2

-----------------------------------------------------------------------------
(* Byte strings.                                                            *)

Min(a, b) == IF a <= b THEN a ELSE b
Max(a, b) == IF a >= b THEN a ELSE b

\* s[lo..hi) with 0-based byte offsets, as Rust's &s[lo..hi].
Slice(s, lo, hi) == SubSeq(s, lo + 1, hi)

\* A UTF-8 continuation byte: (byte & 0xC0) == 0x80.
IsCont(b) == b >= 128 /\ b <= 191

\* str::is_char_boundary: 0 and len are boundaries, an index past the end is
\* not, otherwise the byte at the index must not be a continuation byte.
IsCharBoundary(s, i) ==
    \/ i = 0
    \/ i = Len(s)
    \/ (i > 0 /\ i < Len(s) /\ ~IsCont(s[i + 1]))

\* The offset i lies between a CR and an LF of s.
IsCrlfSeam(s, i) == i > 0 /\ i < Len(s) /\ s[i] = CR /\ s[i + 1] = LF

-----------------------------------------------------------------------------
(* TextInfo: the per-chunk summary.                                         *)

TextInfoNew ==
    [bytes |-> 0, chars |-> 0, line_breaks |-> 0,
     starts_with_lf |-> FALSE, ends_with_cr |-> FALSE]

\* One scan of the text: bytes, chars (non-continuation bytes), line breaks
\* of the CRLF regime (LF, CR, CR+LF counted once), and the two edge flags.
TextInfoFromStr(s) ==
    [bytes |-> Len(s),
     chars |-> Cardinality({i \in 1..Len(s) : ~IsCont(s[i])}),
     line_breaks |->
        Cardinality({i \in 1..Len(s) :
            \/ s[i] = LF
            \/ (s[i] = CR /\ ~(i < Len(s) /\ s[i + 1] = LF))}),
     starts_with_lf |-> Len(s) > 0 /\ s[1] = LF,
     ends_with_cr |-> Len(s) > 0 /\ s[Len(s)] = CR]

\* A variant of TextInfoAppend that takes the ends_with_cr flag of the right
\* operand even when that operand is empty.
TextInfoAppendEndsRhs(a, b) ==
    [bytes |-> a.bytes + b.bytes,
     chars |-> a.chars + b.chars,
     line_breaks |->
        a.line_breaks + b.line_breaks
            - (IF a.ends_with_cr /\ b.starts_with_lf THEN 1 ELSE 0),
     starts_with_lf |->
        IF a.bytes = 0 THEN b.starts_with_lf ELSE a.starts_with_lf,
     ends_with_cr |-> b.ends_with_cr]

\* A variant of TextInfoAppend without the CR+LF join correction.
TextInfoAppendSum(a, b) ==
    [bytes |-> a.bytes + b.bytes,
     chars |-> a.chars + b.chars,
     line_breaks |-> a.line_breaks + b.line_breaks,
     starts_with_lf |->
        IF a.bytes = 0 THEN b.starts_with_lf ELSE a.starts_with_lf,
     ends_with_cr |->
        IF b.bytes = 0 THEN a.ends_with_cr ELSE b.ends_with_cr]

\* The monoid operation: counts add up, and a CR at the end of a followed by
\* an LF at the start of b is one line break, not two.
TextInfoAppend(a, b) ==
    [bytes |-> a.bytes + b.bytes,
     chars |-> a.chars + b.chars,
     line_breaks |->
        a.line_breaks + b.line_breaks
            - (IF a.ends_with_cr /\ b.starts_with_lf THEN 1 ELSE 0),
     starts_with_lf |->
        IF a.bytes = 0 THEN b.starts_with_lf ELSE a.starts_with_lf,
     ends_with_cr |->
        IF b.bytes = 0 THEN a.ends_with_cr ELSE b.ends_with_cr]

RECURSIVE CombinedTextInfoFrom(_, _)
CombinedTextInfoFrom(infos, acc) ==
    IF infos = <<>> THEN acc
    ELSE CombinedTextInfoFrom(Tail(infos), TextInfoAppend(acc, Head(infos)))

\* Children::combined_text_info: the append-fold of the stored infos.
CombinedTextInfo(infos) == CombinedTextInfoFrom(infos, TextInfoNew)

-----------------------------------------------------------------------------
(* Text: the leaf buffer.                                                   *)

\* Text::free_capacity: what is left of the MAX_BYTES of a leaf.
FreeCapacity(s) == MAX_BYTES - Len(s)

\* Text::insert_str.
InsertStr(s, i, t) == Slice(s, 0, i) \o t \o Slice(s, i, Len(s))

\* Text::remove of the byte range [lo, hi).
TextRemove(s, lo, hi) == Slice(s, 0, lo) \o Slice(s, hi, Len(s))

\* Where Text::split cuts: at byte_idx, or one byte before it when byte_idx
\* lies between a CR and an LF.
SplitPoint(s, byte_idx) ==
    IF IsCrlfSeam(s, byte_idx) THEN byte_idx - 1 ELSE byte_idx

\* Text::split: the text keeps the left part, the right part is returned.
TextSplit(s, byte_idx) ==
    [l |-> Slice(s, 0, SplitPoint(s, byte_idx)),
     r |-> Slice(s, SplitPoint(s, byte_idx), Len(s))]

\* A variant of FindSplitL that gives nothing of t to the left-hand side.
FindSplitLNone(split_idx, t) == 0

\* find_split_l: the largest k <= split_idx that is a char boundary of t.
FindSplitL(split_idx, t) ==
    LET top == Min(split_idx, Len(t))
        ok == {k \in 0..top : IsCharBoundary(t, k)}
    IN  CHOOSE k \in ok : \A j \in ok : j <= k

\* A cut of the joined text a distribute may choose: on a char boundary, and
\* not between a CR and an LF.
IsCut(s, k) == IsCharBoundary(s, k) /\ ~IsCrlfSeam(s, k)

Dist(a, b) == IF a >= b THEN a - b ELSE b - a

\* Text::distribute: both texts joined and cut again at the valid cut nearest
\* to the middle (the lower one of two equally near).
DistributePoint(s) ==
    LET mid == (Len(s) + 1) \div 2
        cuts == {k \in 0..Len(s) : IsCut(s, k)}
    IN  CHOOSE k \in cuts :
            \A j \in cuts :
                \/ Dist(k, mid) < Dist(j, mid)
                \/ (Dist(k, mid) = Dist(j, mid) /\ k <= j)

Distribute(l, r) ==
    LET s == l \o r
        k == DistributePoint(s)
    IN  [l |-> Slice(s, 0, k), r |-> Slice(s, k, Len(s))]

-----------------------------------------------------------------------------
(* Children: the parallel arrays of an internal node.                      *)

RECURSIVE SumBytes(_, _)
SumBytes(infos, n) ==
    IF n = 0 THEN 0 ELSE SumBytes(infos, n - 1) + infos[n].bytes

\* Children::search_byte_idx_only: the first child whose cumulative byte
\* count exceeds idx (the last child when none does: one past the end is
\* valid), and the bytes to the left of that child.  Children are numbered
\* from 1 here.
SearchByteIdxOnly(infos, idx) ==
    LET hit == {i \in 1..Len(infos) : SumBytes(infos, i) > idx}
        i == IF hit = {} THEN Len(infos)
             ELSE CHOOSE k \in hit : \A j \in hit : k <= j
    IN  [i |-> i, acc |-> SumBytes(infos, i - 1)]

SeqInsert(s, i, x) == SubSeq(s, 1, i - 1) \o <<x>> \o SubSeq(s, i, Len(s))

\* Removes the elements at positions lo..hi-1 (1-based, hi exclusive).
SeqRemove(s, lo, hi) == SubSeq(s, 1, lo - 1) \o SubSeq(s, hi, Len(s))

\* Children::insert_split: how many of the MAX_CHILDREN + 1 entries the left
\* node keeps.
SplitKeep(n) == (n + 1) \div 2

-----------------------------------------------------------------------------
(* The heap of Arc allocations.                                             *)

Handles == {1, 2}

LeafObj(t) == [leaf |-> TRUE, text |-> t, nodes |-> <<>>, info |-> <<>>]
InternalObj(ns, is) == [leaf |-> FALSE, text |-> <<>>, nodes |-> ns, info |-> is]

\* The id a new allocation gets: the lowest one not in use.
NewId(h) ==
    CHOOSE n \in 1..(Cardinality(DOMAIN h) + 1) :
        n \notin DOMAIN h /\ \A m \in 1..(n - 1) : m \in DOMAIN h

\* Arc::strong_count: the handles whose root is the allocation, and the
\* children arrays that hold it.
StrongCount(h, id) ==
    Cardinality({k \in Handles : root[k] = id})
        + Cardinality({o \in DOMAIN h :
            \E j \in 1..Len(h[o].nodes) : h[o].nodes[j] = id})

\* A variant of MakeMut that never copies: it writes through a shared Arc.
MakeMutInPlace(h, id) == [heap |-> h, id |-> id]

\* A variant of MakeMut that copies every allocation, shared or not.
MakeMutCopy(h, id) == [heap |-> h @@ (NewId(h) :> h[id]), id |-> NewId(h)]

\* Arc::make_mut: a uniquely held allocation is used as it is, a shared one
\* is copied first and the copy is used.
MakeMut(h, id) ==
    IF StrongCount(h, id) > 1
    THEN [heap |-> h @@ (NewId(h) :> h[id]), id |-> NewId(h)]
    ELSE [heap |-> h, id |-> id]

RECURSIVE TreeText(_, _)
RECURSIVE TreeTextOf(_, _)
TreeTextOf(h, ids) ==
    IF ids = <<>> THEN <<>>
    ELSE TreeText(h, Head(ids)) \o TreeTextOf(h, Tail(ids))

\* The concatenation of the leaves below a node.
TreeText(h, id) ==
    IF h[id].leaf THEN h[id].text ELSE TreeTextOf(h, h[id].nodes)

RECURSIVE Leaves(_, _)
RECURSIVE LeavesOf(_, _)
LeavesOf(h, ids) ==
    IF ids = <<>> THEN <<>>
    ELSE Leaves(h, Head(ids)) \o LeavesOf(h, Tail(ids))

\* The leaf texts below a node, left to right.
Leaves(h, id) ==
    IF h[id].leaf THEN <<h[id].text>> ELSE LeavesOf(h, h[id].nodes)

RECURSIVE Reach(_, _)
\* The allocations a node keeps alive.
Reach(h, id) ==
    {id} \cup UNION {Reach(h, h[id].nodes[j]) : j \in 1..Len(h[id].nodes)}

\* Dropping: an allocation no handle reaches any more is freed.
Collect(h, rt) ==
    LET live == UNION {Reach(h, rt[k]) : k \in {x \in Handles : rt[x] # 0}}
    IN  [i \in live |-> h[i]]

RECURSIVE TreeVal(_, _)
\* A tree as a value: every leaf's text and every cached info, by position.
TreeVal(h, id) ==
    [leaf |-> h[id].leaf,
     text |-> h[id].text,
     info |-> h[id].info,
     kids |-> [j \in 1..Len(h[id].nodes) |-> TreeVal(h, h[id].nodes[j])]]

-----------------------------------------------------------------------------
(* Node::insert_at_byte_idx.                                                *)

\* What a call on a node returns: Ok/Err (or a panic), the heap after it,
\* the allocation the node now is, its new info, and for an insertion the
\* residual right-hand node (0: none) with its info.
Ret(st, h, self, info, res, rinfo) ==
    [st |-> st, heap |-> h, self |-> self, info |-> info,
     res |-> res, rinfo |-> rinfo]

Fail(st, h, self) == Ret(st, h, self, TextInfoNew, 0, TextInfoNew)

\* A variant of ChildInfoAfter that forgets to store the child's new info.
ChildInfoKept(infos, child_i, new_info) == infos

\* children.info_mut()[child_i] = new_info
ChildInfoAfter(infos, child_i, new_info) ==
    [infos EXCEPT ![child_i] = new_info]

\* A variant of NotOnCharBoundary that lets every index through.
NotOnCharBoundaryNever(s, byte_idx) == FALSE

\* !leaf_text.is_char_boundary(byte_idx): the early-out of both calls.
NotOnCharBoundary(s, byte_idx) == ~IsCharBoundary(s, byte_idx)

\* The node id with the children nodes and info, and the info of the whole
\* node as its result: Ok((children.combined_text_info(), None)).
WithChildren(h, id, nodes, info) ==
    Ret("ok", [h EXCEPT ![id] = InternalObj(nodes, info)], id,
        CombinedTextInfo(info), 0, TextInfoNew)

\* Enough room: the leaf m.id holds the text s2 after insert_str.
LeafInsertFits(m, s2) ==
    Ret("ok", [m.heap EXCEPT ![m.id] = LeafObj(s2)], m.id,
        TextInfoFromStr(s2), 0, TextInfoNew)

\* The end of the split path: d holds the two texts after distribute, r2 is
\* the right text before it.  A text that outgrows its buffer is a panic.
LeafInsertDistributed(h, id, m, r2, d) ==
    IF Len(r2) > MAX_BYTES \/ Len(d.l) > MAX_BYTES \/ Len(d.r) > MAX_BYTES
    THEN Fail("panic", h, id)
    ELSE Ret("ok",
             [m.heap EXCEPT ![m.id] = LeafObj(d.l)]
                 @@ (NewId(m.heap) :> LeafObj(d.r)),
             m.id, TextInfoFromStr(d.l), NewId(m.heap), TextInfoFromStr(d.r))

\* text[..text_split_idx] is appended to the left part of the split leaf,
\* text[text_split_idx..] is put in front of the right part, then the two
\* are distributed.
LeafInsertParts(h, id, m, sp, text, text_split_idx) ==
    LeafInsertDistributed(h, id, m,
        Slice(text, text_split_idx, Len(text)) \o sp.r,
        Distribute(sp.l \o Slice(text, 0, text_split_idx),
                   Slice(text, text_split_idx, Len(text)) \o sp.r))

\* The leaf case after Arc::make_mut: m is the heap and the id to write to.
LeafInsertMut(h, id, m, byte_idx, text) ==
    IF Len(text) <= FreeCapacity(m.heap[m.id].text)
    THEN LeafInsertFits(m, InsertStr(m.heap[m.id].text, byte_idx, text))
    ELSE LeafInsertParts(h, id, m, TextSplit(m.heap[m.id].text, byte_idx),
             text,
             FindSplitL(FreeCapacity(TextSplit(m.heap[m.id].text,
                                               byte_idx).l), text))

\* The leaf case.
LeafInsert(h, id, byte_idx, text) ==
    IF NotOnCharBoundary(h[id].text, byte_idx) THEN Fail("err", h, id)
    ELSE LeafInsertMut(h, id, MakeMut(h, id), byte_idx, text)

\* insert_split: the node h[id] keeps the first keep entries, a new internal
\* node gets the rest and is returned as the residual.
InsertSplit(h, id, nodes2, info2, keep) ==
    Ret("ok",
        [h EXCEPT ![id] = InternalObj(SubSeq(nodes2, 1, keep),
                                      SubSeq(info2, 1, keep))]
            @@ (NewId(h) :> InternalObj(SubSeq(nodes2, keep + 1, Len(nodes2)),
                                        SubSeq(info2, keep + 1, Len(info2)))),
        id, CombinedTextInfo(SubSeq(info2, 1, keep)),
        NewId(h), CombinedTextInfo(SubSeq(info2, keep + 1, Len(info2))))

\* After the recursion into child child_i of the node c (now at m.id) has
\* returned r: an Err leaves through `?` before the child's info is stored.
InsertWriteBack(m, c, child_i, r) ==
    LET nodes1 == [c.nodes EXCEPT ![child_i] = r.self]
        info1 == ChildInfoAfter(c.info, child_i, r.info)
    IN  IF r.st # "ok"
        THEN Fail(r.st, [r.heap EXCEPT ![m.id] = InternalObj(nodes1, c.info)],
                  m.id)
        ELSE IF r.res = 0
        THEN WithChildren(r.heap, m.id, nodes1, info1)
        ELSE IF Len(c.nodes) < MAX_CHILDREN
        THEN WithChildren(r.heap, m.id,
                          SeqInsert(nodes1, child_i + 1, r.res),
                          SeqInsert(info1, child_i + 1, r.rinfo))
        ELSE InsertSplit(r.heap, m.id,
                         SeqInsert(nodes1, child_i + 1, r.res),
                         SeqInsert(info1, child_i + 1, r.rinfo),
                         SplitKeep(Len(c.nodes) + 1))

RECURSIVE InsertAtByteIdx(_, _, _, _)

\* The recursion into the child f.i that search_byte_idx_only has found.
InsertIntoChild(m, c, f, byte_idx, text) ==
    InsertWriteBack(m, c, f.i,
        InsertAtByteIdx(m.heap, c.nodes[f.i], byte_idx - f.acc, text))

\* The internal case after Arc::make_mut.
InternalInsert(h, id, m, byte_idx, text) ==
    IF Len(m.heap[m.id].nodes) = 0 THEN Fail("panic", h, id)
    ELSE InsertIntoChild(m, m.heap[m.id],
             SearchByteIdxOnly(m.heap[m.id].info, byte_idx), byte_idx, text)

InsertAtByteIdx(h, id, byte_idx, text) ==
    IF h[id].leaf THEN LeafInsert(h, id, byte_idx, text)
    ELSE InternalInsert(h, id, MakeMut(h, id), byte_idx, text)

-----------------------------------------------------------------------------
(* Node::remove_byte_range.                                                 *)

\* The leaf case after Arc::make_mut.
LeafRemoveMut(m, s2) ==
    Ret("ok", [m.heap EXCEPT ![m.id] = LeafObj(s2)], m.id,
        TextInfoFromStr(s2), 0, TextInfoNew)

\* The leaf case.  The range must not cover the whole leaf (debug_assert).
LeafRemove(h, id, lo, hi) ==
    IF ~(lo > 0 \/ hi < Len(h[id].text)) THEN Fail("panic", h, id)
    ELSE IF NotOnCharBoundary(h[id].text, lo)
                \/ NotOnCharBoundary(h[id].text, hi)
    THEN Fail("err", h, id)
    ELSE LeafRemoveMut(MakeMut(h, id), TextRemove(h[id].text, lo, hi))

\* The first child removed as a whole.
RemovalStart(remove_whole_start_child, start_child_i) ==
    IF remove_whole_start_child THEN start_child_i ELSE start_child_i + 1

\* A variant of RemovalEnd that always removes the end child.
RemovalEndTake(remove_whole_end_child, end_child_i) == end_child_i + 1

\* One past the last child removed as a whole.
RemovalEnd(remove_whole_end_child, end_child_i) ==
    IF remove_whole_end_child THEN end_child_i + 1 ELSE end_child_i

\* Single child, partly covered: after the recursion has returned r.
RemoveSingleWriteBack(m, c, start_child_i, r) ==
    IF r.st # "ok"
    THEN Fail(r.st,
              [r.heap EXCEPT ![m.id] =
                  InternalObj([c.nodes EXCEPT ![start_child_i] = r.self],
                              c.info)],
              m.id)
    ELSE WithChildren(r.heap, m.id,
                      [c.nodes EXCEPT ![start_child_i] = r.self],
                      ChildInfoAfter(c.info, start_child_i, r.info))

\* Several children: the children between removal_start and removal_end
\* are removed as a whole.
RemoveWhole(h, id, nodes2, info2, removal_start, removal_end) ==
    IF removal_start < removal_end
    THEN WithChildren(h, id,
                      SeqRemove(nodes2, removal_start, removal_end),
                      SeqRemove(info2, removal_start, removal_end))
    ELSE WithChildren(h, id, nodes2, info2)

\* Several children: after the partial removal in the rightmost child has
\* returned r2 (Ok with the old info when that child goes as a whole).  An
\* Err leaves through `?`: what was done to the leftmost child stays.
RemoveEndDone(m, start_child_i, end_child_i, whole_start, whole_end, nodes1, info1, r2) ==
    IF r2.st # "ok"
    THEN Fail(r2.st,
              [r2.heap EXCEPT ![m.id] =
                  InternalObj([nodes1 EXCEPT ![end_child_i] = r2.self],
                              info1)],
              m.id)
    ELSE RemoveWhole(r2.heap, m.id,
                     [nodes1 EXCEPT ![end_child_i] = r2.self],
                     IF whole_end THEN info1
                     ELSE ChildInfoAfter(info1, end_child_i, r2.info),
                     RemovalStart(whole_start, start_child_i),
                     RemovalEnd(whole_end, end_child_i))

RECURSIVE RemoveByteRange(_, _, _, _)

\* Several children: the partial removal in the rightmost child, on the
\* heap h1 that holds what was done to the leftmost child.
RemoveEnd(m, c, start_child_i, end_child_i, end_byte_idx, whole_start, whole_end, nodes1, info1, h1) ==
    RemoveEndDone(m, start_child_i, end_child_i, whole_start, whole_end,
        nodes1, info1,
        IF whole_end
        THEN Ret("ok", h1, c.nodes[end_child_i], c.info[end_child_i], 0,
                 TextInfoNew)
        ELSE RemoveByteRange(h1, c.nodes[end_child_i], 0, end_byte_idx))

\* Several children: after the partial removal in the leftmost child has
\* returned r1 (Ok with the old info when that child goes as a whole).
RemoveStartDone(m, c, start_child_i, end_child_i, end_byte_idx, whole_start, whole_end, r1) ==
    LET nodes1 == [c.nodes EXCEPT ![start_child_i] = r1.self]
        info1 == IF whole_start THEN c.info
                 ELSE ChildInfoAfter(c.info, start_child_i, r1.info)
    IN  IF r1.st # "ok"
        THEN Fail(r1.st,
                  [r1.heap EXCEPT ![m.id] = InternalObj(nodes1, c.info)],
                  m.id)
        ELSE RemoveEnd(m, c, start_child_i, end_child_i, end_byte_idx,
                       whole_start, whole_end, nodes1, info1,
                       [r1.heap EXCEPT ![m.id] = InternalObj(nodes1, info1)])

\* The removal spans several children.
RemoveMulti(m, c, start_child_i, end_child_i, start_byte_idx, end_byte_idx) ==
    RemoveStartDone(m, c, start_child_i, end_child_i, end_byte_idx,
        start_byte_idx = 0,
        end_byte_idx = c.info[end_child_i].bytes,
        IF start_byte_idx = 0
        THEN Ret("ok", m.heap, c.nodes[start_child_i],
                 c.info[start_child_i], 0, TextInfoNew)
        ELSE RemoveByteRange(m.heap, c.nodes[start_child_i], start_byte_idx,
                             c.info[start_child_i].bytes))

\* The removal is within a single child.
RemoveSingle(m, c, start_child_i, start_byte_idx, end_byte_idx) ==
    IF start_byte_idx = 0 /\ end_byte_idx = c.info[start_child_i].bytes
    THEN WithChildren(m.heap, m.id,
                      SeqRemove(c.nodes, start_child_i, start_child_i + 1),
                      SeqRemove(c.info, start_child_i, start_child_i + 1))
    ELSE RemoveSingleWriteBack(m, c, start_child_i,
             RemoveByteRange(m.heap, c.nodes[start_child_i],
                             start_byte_idx, end_byte_idx))

\* The internal case after the two searches: sf and ef are the children that
\* hold the two ends of the range, with the bytes to their left.
RemoveFound(m, c, sf, ef, lo, hi) ==
    IF sf.i = ef.i
    THEN RemoveSingle(m, c, sf.i, lo - sf.acc, hi - ef.acc)
    ELSE RemoveMulti(m, c, sf.i, ef.i, lo - sf.acc, hi - ef.acc)

\* The internal case after Arc::make_mut.
InternalRemove(h, id, m, lo, hi) ==
    IF Len(m.heap[m.id].nodes) = 0 THEN Fail("panic", h, id)
    ELSE RemoveFound(m, m.heap[m.id],
                     SearchByteIdxOnly(m.heap[m.id].info, lo),
                     SearchByteIdxOnly(m.heap[m.id].info, hi), lo, hi)

RemoveByteRange(h, id, lo, hi) ==
    IF h[id].leaf THEN LeafRemove(h, id, lo, hi)
    ELSE InternalRemove(h, id, MakeMut(h, id), lo, hi)

-----------------------------------------------------------------------------
(* The trees the checks start from, and the inputs of the calls.           *)

\* The info of a subtree, computed from its text.
InfoOf(h, id) == TextInfoFromStr(TreeText(h, id))

MkInternal(h, ids) ==
    InternalObj(ids, [j \in 1..Len(ids) |-> InfoOf(h, ids[j])])

\* An empty rope: a single empty leaf.
TreeEmpty == [heap |-> (1 :> LeafObj(<<>>)), root |-> 1, used |-> 0]

\* A single full leaf: "ab\r\ncd" + U+00E9 + "e".
TreeLeaf ==
    [heap |-> (1 :> LeafObj(<<97, 98, 13, 10, 99, 100, 195, 169, 101>>)),
     root |-> 1, used |-> 0]

\* Two leaves: "abc\rd" and "e\n" + U+00E9 + "fg".
TreeTwo ==
    LET h == (2 :> LeafObj(<<97, 98, 99, 13, 100>>))
             @@ (3 :> LeafObj(<<101, 10, 195, 169, 102, 103>>))
    IN  [heap |-> h @@ (1 :> MkInternal(h, <<2, 3>>)), root |-> 1, used |-> 0]

\* Three levels: two internal nodes of two leaves each.
TreeDeep ==
    LET h == (4 :> LeafObj(<<97, 98, 99, 100>>))
             @@ (5 :> LeafObj(<<101, 195, 169, 102>>))
             @@ (6 :> LeafObj(<<103, 104, 105, 13>>))
             @@ (7 :> LeafObj(<<106, 107, 108, 109>>))
        g == h @@ (2 :> MkInternal(h, <<4, 5>>))
               @@ (3 :> MkInternal(h, <<6, 7>>))
    IN  [heap |-> g @@ (1 :> MkInternal(g, <<2, 3>>)), root |-> 1, used |-> 0]

\* A full root: MAX_CHILDREN leaves.  The largest tree: it is explored one
\* call less deep than the others.
TreeFull ==
    LET h == (2 :> LeafObj(<<97, 98, 99, 100, 101>>))
             @@ (3 :> LeafObj(<<102, 103, 104, 105>>))
             @@ (4 :> LeafObj(<<106, 107, 108, 109>>))
             @@ (5 :> LeafObj(<<110, 111, 112, 113>>))
             @@ (6 :> LeafObj(<<114, 115, 116, 117>>))
    IN  [heap |-> h @@ (1 :> MkInternal(h, <<2, 3, 4, 5, 6>>)), root |-> 1,
         used |-> 1]

InitTrees == {TreeEmpty, TreeLeaf, TreeTwo, TreeDeep, TreeFull}

\* The texts inserted: "x", "\n", and "x" + U+00E9 + "\r\n", which has the
\* largest size the insertion accepts (MAX_BYTES - 4).
InsTexts == {<<120>>, <<10>>, <<120, 195, 169, 13, 10>>}

NoArgs == <<>>

-----------------------------------------------------------------------------
(* Well-formedness, as the debugging helpers of node.rs check it.          *)

\* assert_accurate_text_info: every stored child info is the info of that
\* child's text.
InfoAccurate(h, id) ==
    \A o \in Reach(h, id) :
        \A j \in 1..Len(h[o].nodes) :
            h[o].info[j] = InfoOf(h, h[o].nodes[j])

RECURSIVE Depths(_, _)
\* The depths at which the leaves below a node lie (an internal node without
\* children counts as a depth of its own: the helper fails on it).
Depths(h, id) ==
    IF h[id].leaf THEN {1}
    ELSE IF Len(h[id].nodes) = 0 THEN {0}
    ELSE {d + 1 : d \in UNION {Depths(h, h[id].nodes[j]) :
                                    j \in 1..Len(h[id].nodes)}}

\* assert_equal_leaf_depth runs through.
EqualLeafDepth(h, id) ==
    /\ Cardinality(Depths(h, id)) = 1
    /\ \A o \in Reach(h, id) : h[o].leaf \/ Len(h[o].nodes) > 0

\* The handle's tree is one the calls are specified on: its cached infos,
\* the handle's own included, are those of the text.
WellFormed(h, rt, ri) == InfoAccurate(h, rt) /\ ri = InfoOf(h, rt)

-----------------------------------------------------------------------------
(* The calls, made through handle 1; handle 2 is a clone taken before.     *)

Init ==
    \E t \in InitTrees :
        /\ heap = t.heap
        /\ root = [k \in Handles |-> t.root]
        /\ root_info = [k \in Handles |-> InfoOf(t.heap, t.root)]
        /\ last = [op |-> "init", st |-> "ok", valid |-> TRUE, wf |-> TRUE,
                   expect |-> TreeText(t.heap, t.root),
                   lo |-> 0, hi |-> 0, text |-> <<>>, split |-> FALSE]
        /\ clean = TRUE
        /\ nops = t.used
        /\ args = NoArgs
        /\ result = NoArgs

\* What the handle does with the result of an insertion: it keeps the new
\* info, and puts a residual node with the old root under a new root.
RootAfterInsert(r) ==
    IF r.res = 0 THEN [heap |-> r.heap, root |-> r.self, info |-> r.info]
    ELSE LET n == NewId(r.heap)
             infos == <<r.info, r.rinfo>>
         IN  [heap |-> r.heap @@ (n :> InternalObj(<<r.self, r.res>>, infos)),
              root |-> n, info |-> CombinedTextInfo(infos)]

Finish(op, r, new, valid, expect, lo, hi, text) ==
    /\ heap' = IF r.st = "panic" THEN heap
               ELSE Collect(new.heap, [root EXCEPT ![1] = new.root])
    /\ root' = IF r.st = "panic" THEN root ELSE [root EXCEPT ![1] = new.root]
    /\ root_info' = IF r.st = "ok" THEN [root_info EXCEPT ![1] = new.info]
                    ELSE root_info
    /\ last' = [op |-> op, st |-> r.st, valid |-> valid,
                wf |-> WellFormed(heap, root[1], root_info[1]),
                expect |-> expect, lo |-> lo, hi |-> hi, text |-> text,
                split |-> r.res # 0]
    /\ clean' = (clean /\ r.st = "ok")
    /\ nops' = nops + 1
    /\ UNCHANGED <<args, result>>

\* An insertion through handle 1 has returned r; pre is the text before it.
InsertCall(pre, r, byte_idx, text) ==
    Finish("insert", r,
           IF r.st = "ok" THEN RootAfterInsert(r)
           ELSE [heap |-> r.heap, root |-> r.self, info |-> root_info[1]],
           byte_idx <= Len(pre) /\ IsCharBoundary(pre, byte_idx),
           IF byte_idx <= Len(pre) THEN InsertStr(pre, byte_idx, text)
           ELSE pre,
           byte_idx, byte_idx, text)

Insert ==
    /\ nops < MaxOps
    /\ last.st # "panic"
    /\ \E byte_idx \in 0..root_info[1].bytes, text \in InsTexts :
        InsertCall(TreeText(heap, root[1]),
                   InsertAtByteIdx(heap, root[1], byte_idx, text),
                   byte_idx, text)

\* A removal through handle 1 has returned r; pre is the text before it.
RemoveCall(pre, r, lo, hi) ==
    Finish("remove", r,
           [heap |-> r.heap, root |-> r.self, info |-> r.info],
           /\ hi <= Len(pre)
           /\ ~(lo = 0 /\ hi = Len(pre))
           /\ IsCharBoundary(pre, lo)
           /\ IsCharBoundary(pre, hi),
           IF hi <= Len(pre) THEN TextRemove(pre, lo, hi) ELSE pre,
           lo, hi, <<>>)

\* The handle passes on a range that does not cover all it holds.
Remove ==
    /\ nops < MaxOps
    /\ last.st # "panic"
    /\ \E lo \in 0..root_info[1].bytes :
        \E hi \in lo..root_info[1].bytes :
            /\ ~(lo = 0 /\ hi = root_info[1].bytes)
            /\ RemoveCall(TreeText(heap, root[1]),
                          RemoveByteRange(heap, root[1], lo, hi), lo, hi)

Next == Insert \/ Remove

Spec == Init /\ [][Next]_vars

-----------------------------------------------------------------------------
(* Comparison of two ropes, each seen as the list of chunks its chunk        *)
(* iterator yields; a chunk may be empty.                                    *)

\* Bounds of the chunk lists that are compared.
MaxTextLen == 2
MaxChunks == 3

CmpBytes == {97, 98}

CmpChunks == UNION {[1..n -> CmpBytes] : n \in 0..MaxTextLen}

\* len_bytes(): the number of bytes of the whole rope.
RECURSIVE LenBytes(_)
LenBytes(cl) == IF cl = <<>> THEN 0 ELSE Len(Head(cl)) + LenBytes(Tail(cl))

\* The text of a rope: its chunks in order.
RECURSIVE Flat(_)
Flat(cl) == IF cl = <<>> THEN <<>> ELSE Head(cl) \o Flat(Tail(cl))

ChunkLists ==
    {cl \in UNION {[1..n -> CmpChunks] : n \in 0..MaxChunks} :
        LenBytes(cl) <= MaxTextLen}

\* A variant of LenDiffers that never returns early.
LenDiffersNever(a, b) == FALSE

\* The early return of eq on two different lengths.
LenDiffers(a, b) == a # b

\* chunk_itr.next().unwrap_or("")
NextOrEmpty(itr) == IF itr = <<>> THEN <<>> ELSE Head(itr)

\* The loop of eq on two ropes: chunk1 and chunk2 are the unread parts of
\* the current chunks, itr1 and itr2 the chunks not yet taken.
RECURSIVE EqLoop(_, _, _, _)
EqLoop(chunk1, itr1, chunk2, itr2) ==
    LET gt == Len(chunk1) > Len(chunk2)
        differ == IF gt THEN Slice(chunk1, 0, Len(chunk2)) # chunk2
                        ELSE Slice(chunk2, 0, Len(chunk1)) # chunk1
        c1 == IF gt THEN Slice(chunk1, Len(chunk2), Len(chunk1)) ELSE <<>>
        c2 == IF gt THEN <<>> ELSE Slice(chunk2, Len(chunk1), Len(chunk2))
        n1 == IF c1 = <<>> THEN Head(itr1) ELSE c1
        r1 == IF c1 = <<>> THEN Tail(itr1) ELSE itr1
        n2 == IF c2 = <<>> THEN Head(itr2) ELSE c2
        r2 == IF c2 = <<>> THEN Tail(itr2) ELSE itr2
    IN  IF differ THEN FALSE
        ELSE IF c1 = <<>> /\ itr1 = <<>> THEN TRUE
        ELSE IF c2 = <<>> /\ itr2 = <<>> THEN TRUE
        ELSE EqLoop(n1, r1, n2, r2)

\* rope == rope
RopeEq(a, b) ==
    IF LenDiffers(LenBytes(a), LenBytes(b)) THEN FALSE
    ELSE EqLoop(NextOrEmpty(a), IF a = <<>> THEN <<>> ELSE Tail(a),
                NextOrEmpty(b), IF b = <<>> THEN <<>> ELSE Tail(b))

\* The loop of eq on a rope and a string: idx is the number of bytes of
\* the string already compared.
RECURSIVE EqStrLoop(_, _, _)
EqStrLoop(itr, other, idx) ==
    IF itr = <<>> THEN TRUE
    ELSE LET chunk == Head(itr)
         IN  IF chunk # Slice(other, idx, idx + Len(chunk)) THEN FALSE
             ELSE EqStrLoop(Tail(itr), other, idx + Len(chunk))

\* rope == &str
RopeEqStr(a, other) ==
    IF LenDiffers(LenBytes(a), Len(other)) THEN FALSE
    ELSE EqStrLoop(a, other, 0)

\* Ordering::cmp on two integers.
IntCmp(x, y) == IF x < y THEN "Less" ELSE IF x > y THEN "Greater" ELSE "Equal"

\* <[u8] as Ord>::cmp: the first differing byte decides, and of two slices
\* of which one is a prefix of the other the shorter one is the lesser.
RECURSIVE SliceCmp(_, _)
SliceCmp(x, y) ==
    IF x = <<>> \/ y = <<>> THEN IntCmp(Len(x), Len(y))
    ELSE IF Head(x) # Head(y) THEN IntCmp(Head(x), Head(y))
    ELSE SliceCmp(Tail(x), Tail(y))

\* The loop of cmp on two ropes.  In the branch of the shorter chunk1, chunk1
\* is emptied before chunk2 is sliced by chunk1.len(), so chunk2 stays as it
\* is.  The result is the Ordering the loop returns, or "break".
RECURSIVE CmpLoop(_, _, _, _)
CmpLoop(chunk1, itr1, chunk2, itr2) ==
    LET ge == Len(chunk1) >= Len(chunk2)
        compared == IF ge THEN SliceCmp(Slice(chunk1, 0, Len(chunk2)), chunk2)
                    ELSE SliceCmp(chunk1, Slice(chunk2, 0, Len(chunk1)))
        c1 == IF ge THEN Slice(chunk1, Len(chunk2), Len(chunk1)) ELSE <<>>
        c2 == IF ge THEN <<>> ELSE Slice(chunk2, 0, Len(chunk2))
        n1 == IF c1 = <<>> THEN Head(itr1) ELSE c1
        r1 == IF c1 = <<>> THEN Tail(itr1) ELSE itr1
        n2 == IF c2 = <<>> THEN Head(itr2) ELSE c2
        r2 == IF c2 = <<>> THEN Tail(itr2) ELSE itr2
    IN  IF compared # "Equal" THEN compared
        ELSE IF c1 = <<>> /\ itr1 = <<>> THEN "break"
        ELSE IF c2 = <<>> /\ itr2 = <<>> THEN "break"
        ELSE CmpLoop(n1, r1, n2, r2)

\* What cmp returns once the loop has ended with res.
CmpAfterLoop(res, a, b) ==
    IF res = "break" THEN IntCmp(LenBytes(a), LenBytes(b)) ELSE res

\* rope.cmp(rope)
RopeCmp(a, b) ==
    CmpAfterLoop(CmpLoop(NextOrEmpty(a), IF a = <<>> THEN <<>> ELSE Tail(a),
                         NextOrEmpty(b), IF b = <<>> THEN <<>> ELSE Tail(b)),
                 a, b)

\* The comparisons have run on the pair of ropes in args.
Compared == DOMAIN result # {}

InitCmp ==
    /\ heap = TreeEmpty.heap
    /\ root = [k \in Handles |-> TreeEmpty.root]
    /\ root_info = [k \in Handles |-> TextInfoNew]
    /\ last = [op |-> "init", st |-> "ok", valid |-> TRUE, wf |-> TRUE,
               expect |-> <<>>,
               lo |-> 0, hi |-> 0, text |-> <<>>, split |-> FALSE]
    /\ clean = TRUE
    /\ nops = 0
    /\ args \in [a : ChunkLists, b : ChunkLists]
    /\ result = NoArgs

\* Ordering::reverse.
Reverse(ord) == IF ord = "Less" THEN "Greater" ELSE IF ord = "Greater" THEN "Less" ELSE ord

\* The ropes args.a and args.b are compared, both ways round for the
\* ordering, and args.a with the text of args.b as a string.
Compare ==
    /\ ~Compared
    /\ result' = [eq |-> RopeEq(args.a, args.b),
                  eq_str |-> RopeEqStr(args.a, Flat(args.b)),
                  cmp |-> RopeCmp(args.a, args.b),
                  cmp_rev |-> RopeCmp(args.b, args.a)]
    /\ UNCHANGED <<heap, root, root_info, last, clean, nops, args>>

NextCmp == Compare

SpecCmp == InitCmp /\ [][NextCmp]_vars

-----------------------------------------------------------------------------
(* Hashing of a rope: the writes the hasher receives.                        *)

BLOCK_SIZE == 256

\* Bound of the chunk lists that are hashed.
MaxHashChunks == 3

\* The chunk lengths tried: around the block size, and pairs that fill a
\* block exactly.
HashLens == {0, 1, 100, 156, 255, 256, 257, 600}

\* The chunk of n bytes that starts at offset off of the text; the byte at
\* offset k of every text is k modulo 251.
HashChunk(off, n) == [i \in 1..n |-> (off + i - 1) % 251]

RECURSIVE ChunksOfLens(_, _)
ChunksOfLens(lens, off) ==
    IF lens = <<>> THEN <<>>
    ELSE <<HashChunk(off, Head(lens))>>
             \o ChunksOfLens(Tail(lens), off + Head(lens))

HashRopes ==
    {ChunksOfLens(lens, 0) :
        lens \in UNION {[1..n -> HashLens] : n \in 0..MaxHashChunks}}

\* A variant of SkipsBuffer that passes data on whatever the buffer holds.
SkipsBufferAlways(buffer_len, data_len) == data_len >= BLOCK_SIZE

\* buffer_len == 0 && data.len() >= BLOCK_SIZE
SkipsBuffer(buffer_len, data_len) == buffer_len = 0 /\ data_len >= BLOCK_SIZE

\* The while loop over the data of one chunk: buffer is the filled part of
\* the buffer, writes the calls of state.write so far.
RECURSIVE HashData(_, _, _)
HashData(data, buffer, writes) ==
    IF data = <<>> THEN [buffer |-> buffer, writes |-> writes]
    ELSE IF SkipsBuffer(Len(buffer), Len(data))
    THEN HashData(Slice(data, BLOCK_SIZE, Len(data)), buffer,
                  Append(writes, Slice(data, 0, BLOCK_SIZE)))
    ELSE IF Len(buffer) = BLOCK_SIZE
    THEN HashData(data, <<>>, Append(writes, buffer))
    ELSE HashData(Slice(data, Min(BLOCK_SIZE - Len(buffer), Len(data)),
                        Len(data)),
                  buffer \o Slice(data, 0,
                                  Min(BLOCK_SIZE - Len(buffer), Len(data))),
                  writes)

\* The for loop over the chunks; st is the buffer and the writes so far.
RECURSIVE HashChunks(_, _)
HashChunks(itr, st) ==
    IF itr = <<>> THEN st
    ELSE HashChunks(Tail(itr), HashData(Head(itr), st.buffer, st.writes))

\* After the loop: what is left in the buffer is written, then the byte 0xff.
HashFlush(st) ==
    (IF Len(st.buffer) > 0 THEN Append(st.writes, st.buffer) ELSE st.writes)
        \o << <<255>> >>

\* rope.hash(state): the sequence of writes.
RopeHash(a) == HashFlush(HashChunks(a, [buffer |-> <<>>, writes |-> <<>>]))

\* The text cut at consecutive multiples of the block size.
RECURSIVE Blocks(_)
Blocks(text) ==
    IF text = <<>> THEN <<>>
    ELSE IF Len(text) <= BLOCK_SIZE THEN <<text>>
    ELSE <<Slice(text, 0, BLOCK_SIZE)>>
             \o Blocks(Slice(text, BLOCK_SIZE, Len(text)))

\* The rope in args has been hashed.
Hashed == DOMAIN result # {}

InitHash ==
    /\ heap = TreeEmpty.heap
    /\ root = [k \in Handles |-> TreeEmpty.root]
    /\ root_info = [k \in Handles |-> TextInfoNew]
    /\ last = [op |-> "init", st |-> "ok", valid |-> TRUE, wf |-> TRUE,
               expect |-> <<>>,
               lo |-> 0, hi |-> 0, text |-> <<>>, split |-> FALSE]
    /\ clean = TRUE
    /\ nops = 0
    /\ args \in [a : HashRopes]
    /\ result = NoArgs

Hash ==
    /\ ~Hashed
    /\ result' = [writes |-> RopeHash(args.a)]
    /\ UNCHANGED <<heap, root, root_info, last, clean, nops, args>>

NextHash == Hash

SpecHash == InitHash /\ [][NextHash]_vars

-----------------------------------------------------------------------------
(* The summaries of texts and of their concatenations.                       *)

\* Bound of the texts that are summarised, in chars.
MaxInfoChars == 2

\* The chars the texts are made of: CR, LF and U+00E9 (two bytes).
InfoChars == {<<CR>>, <<LF>>, <<195, 169>>}

InfoTexts ==
    {Flat(cs) : cs \in UNION {[1..n -> InfoChars] : n \in 0..MaxInfoChars}}

\* The summaries of args have been computed.
Summarised == DOMAIN result # {}

InitInfo ==
    /\ heap = TreeEmpty.heap
    /\ root = [k \in Handles |-> TreeEmpty.root]
    /\ root_info = [k \in Handles |-> TextInfoNew]
    /\ last = [op |-> "init", st |-> "ok", valid |-> TRUE, wf |-> TRUE,
               expect |-> <<>>,
               lo |-> 0, hi |-> 0, text |-> <<>>, split |-> FALSE]
    /\ clean = TRUE
    /\ nops = 0
    /\ args \in [a : InfoTexts, b : InfoTexts, c : InfoTexts]
    /\ result = NoArgs

\* The three texts of args are summarised and the summaries appended in both
\* groupings; the first two texts are also summarised as one text.
Summarise ==
    /\ ~Summarised
    /\ result' =
        [ab_c |-> TextInfoAppend(TextInfoAppend(TextInfoFromStr(args.a),
                                                TextInfoFromStr(args.b)),
                                 TextInfoFromStr(args.c)),
         a_bc |-> TextInfoAppend(TextInfoFromStr(args.a),
                                 TextInfoAppend(TextInfoFromStr(args.b),
                                                TextInfoFromStr(args.c))),
         ab |-> TextInfoAppend(TextInfoFromStr(args.a),
                               TextInfoFromStr(args.b)),
         whole |-> TextInfoFromStr(args.a \o args.b)]
    /\ UNCHANGED <<heap, root, root_info, last, clean, nops, args>>

NextInfo == Summarise

SpecInfo == InitInfo /\ [][NextInfo]_vars

-----------------------------------------------------------------------------
(* ByteChunk (src/src/str_utils.rs): a machine word or a vector register     *)
(* seen as a sequence of byte lanes, lane 1 at the lowest address (the       *)
(* target is little-endian x86_64).                                          *)

\* The backends is_x86_feature_detected! selects between.
Backends == {"usize", "__m128i", "__m256i"}

\* Bitwise operations on non-negative integers.
RECURSIVE BitAnd(_, _)
BitAnd(x, y) == IF x = 0 \/ y = 0 THEN 0 ELSE (x % 2) * (y % 2) + 2 * BitAnd(x \div 2, y \div 2)

RECURSIVE BitXor(_, _)
BitXor(x, y) == IF x = 0 /\ y = 0 THEN 0 ELSE ((x + y) % 2) + 2 * BitXor(x \div 2, y \div 2)

\* A byte read as an i8, as the signed vector comparisons read it.
AsI8(x) == IF x >= 128 THEN x - 256 ELSE x

size(T) == CASE T = "usize" -> 8 [] T = "__m128i" -> 16 [] T = "__m256i" -> 32

max_acc(T) == IF T = "usize" THEN (256 \div size(T)) - 1 ELSE (256 \div 8) - 1

splat(T, n) == [i \in 1..size(T) |-> n]

is_zero(c) == \A i \in DOMAIN c : c[i] = 0

\* _mm256_srli_si256: each 128-bit half is shifted on its own.
ShiftHalves(c, n) == [i \in DOMAIN c |-> IF ((i - 1) % 16) + n < 16 THEN c[i + n] ELSE 0]

\* Lane i receives lane i + n; the 256-bit version patches the lanes the
\* half-wise shift lost.
shift_back_lex(T, c, n) ==
    IF T = "__m256i"
    THEN IF n = 1 THEN [ShiftHalves(c, 1) EXCEPT ![16] = c[17]]
         ELSE [ShiftHalves(c, 2) EXCEPT ![16] = c[18], ![15] = c[17]]
    ELSE [i \in DOMAIN c |-> IF i + n <= Len(c) THEN c[i + n] ELSE 0]

\* A right shift by n bits of every 64-bit word of the chunk: the low bits of
\* the next lane of the same word enter at the top of a lane.
shr(c, n) ==
    [i \in DOMAIN c |->
        (c[i] \div (2 ^ n)) + (IF i % 8 # 0 THEN (c[i + 1] % (2 ^ n)) * (2 ^ (8 - n)) ELSE 0)]

\* The word version computes, per lane, w = lane ^ byte and then the top bit
\* of ~(((w & 0x7f) + 0x7f) | w); no lane carries into the next one.
cmp_eq_byte(T, c, byte) ==
    IF T = "usize"
    THEN [i \in DOMAIN c |->
            IF (BitXor(c[i], byte) % 128) + 127 < 128 /\ BitXor(c[i], byte) < 128
            THEN 1 ELSE 0]
    ELSE [i \in DOMAIN c |-> IF c[i] = byte THEN 1 ELSE 0]

\* The 256-bit version, meant to test lane < b, tests ~(lane > b + 1).
bytes_between(T, c, a, b) ==
    CASE T = "usize" ->
            [i \in DOMAIN c |->
                BitAnd(BitAnd(BitAnd((127 + b) - (c[i] % 128), 255 - c[i]),
                              (c[i] % 128) + (127 - a)), 128) \div 128]
      [] T = "__m128i" ->
            [i \in DOMAIN c |->
                IF AsI8(c[i]) > AsI8(a) /\ AsI8(c[i]) < AsI8(b) THEN 1 ELSE 0]
      [] T = "__m256i" ->
            [i \in DOMAIN c |->
                IF ~(AsI8(c[i]) > AsI8(b + 1)) /\ AsI8(c[i]) > AsI8(a) THEN 1 ELSE 0]

bitand(c, other) == [i \in DOMAIN c |-> BitAnd(c[i], other[i])]

\* Word addition and subtraction: a carry or a borrow moves to the next lane
\* and is lost after the last one.
RECURSIVE WordAdd(_, _, _, _)
WordAdd(x, y, i, carry) ==
    IF i > Len(x) THEN <<>>
    ELSE <<(x[i] + y[i] + carry) % 256>> \o WordAdd(x, y, i + 1, (x[i] + y[i] + carry) \div 256)

RECURSIVE WordSub(_, _, _, _)
WordSub(x, y, i, borrow) ==
    IF i > Len(x) THEN <<>>
    ELSE <<(256 + x[i] - y[i] - borrow) % 256>> \o WordSub(x, y, i + 1, IF x[i] - y[i] - borrow < 0 THEN 1 ELSE 0)

\* The lanes of a word, all zero but lane k, which is one.
OneAt(T, k) == [i \in 1..size(T) |-> IF i = k THEN 1 ELSE 0]

add(T, c, other) ==
    IF T = "usize" THEN WordAdd(c, other, 1, 0)
    ELSE [i \in DOMAIN c |-> (c[i] + other[i]) % 256]

sub(T, c, other) ==
    IF T = "usize" THEN WordSub(c, other, 1, 0)
    ELSE [i \in DOMAIN c |-> (256 + c[i] - other[i]) % 256]

inc_nth_from_end_lex_byte(T, c, n) == add(T, c, OneAt(T, size(T) - n))

dec_last_lex_byte(T, c) == sub(T, c, OneAt(T, size(T)))

\* The top byte of word * 0x0101010101010101: the sum of the lanes, with the
\* carries of the partial sums of the lower bytes, modulo 256.
RECURSIVE TopByteOfMul(_, _, _, _)
TopByteOfMul(w, k, partial, carry) ==
    IF k = Len(w) THEN (partial + w[k] + carry) % 256
    ELSE TopByteOfMul(w, k + 1, partial + w[k], (partial + w[k] + carry) \div 256)

RECURSIVE SumWords(_, _)
SumWords(c, from) ==
    IF from > Len(c) THEN 0
    ELSE TopByteOfMul(SubSeq(c, from, from + 7), 1, 0, 0) + SumWords(c, from + 8)

sum_bytes(c) == SumWords(c, 1)

-----------------------------------------------------------------------------
(* Texts in memory: a text is a byte sequence that starts at an address.     *)

\* An address every backend takes as aligned.
BaseAddr == 64

ByteAt(text, start, ptr) == text[ptr - start + 1]

ChunkAt(T, text, start, ptr) == [i \in 1..size(T) |-> text[ptr - start + i]]

next_aligned_ptr(ptr, alignment) == ptr + alignment - (ptr % alignment)

align_ptr(ptr, alignment) == next_aligned_ptr(ptr - 1, alignment)

\* k copies of the byte sequence c.
RECURSIVE Rep(_, _)
Rep(c, k) == IF k = 0 THEN <<>> ELSE c \o Rep(c, k - 1)

-----------------------------------------------------------------------------
(* Chars and bytes (src/src/str_utils.rs).  T is the backend and start the   *)
(* address of the first byte of the text.                                    *)

\* The byte-at-a-time loops of count_chars_internal.
RECURSIVE CountContBytes(_, _, _, _, _)
CountContBytes(text, start, ptr, stop, inv_count) ==
    IF ptr < stop
    THEN CountContBytes(text, start, ptr + 1, stop,
            inv_count + (IF BitAnd(ByteAt(text, start, ptr), 192) = 128 THEN 1 ELSE 0))
    ELSE inv_count

\* The chunk loop of count_chars_internal, with the sum that follows it.
RECURSIVE CountCharsMid(_, _, _, _, _, _, _, _)
RECURSIVE CountCharsMidStep(_, _, _, _, _, _, _, _)
CountCharsMid(T, text, start, end_mid_ptr, ptr, acc, i, inv_count) ==
    IF ptr < end_mid_ptr
    THEN CountCharsMidStep(T, text, start, end_mid_ptr, ptr,
            add(T, acc, cmp_eq_byte(T, bitand(ChunkAt(T, text, start, ptr), splat(T, 192)), 128)),
            i + 1, inv_count)
    ELSE [ptr |-> ptr, inv_count |-> inv_count + sum_bytes(acc)]

CountCharsMidStep(T, text, start, end_mid_ptr, ptr, acc, i, inv_count) ==
    IF i = max_acc(T)
    THEN CountCharsMid(T, text, start, end_mid_ptr, ptr + size(T), splat(T, 0), 0, inv_count + sum_bytes(acc))
    ELSE CountCharsMid(T, text, start, end_mid_ptr, ptr + size(T), acc, i, inv_count)

CountCharsTail(text, start, mid) ==
    Len(text) - CountContBytes(text, start, mid.ptr, start + Len(text), mid.inv_count)

CountCharsFrom(T, text, start, end_pre_ptr) ==
    CountCharsTail(text, start,
        CountCharsMid(T, text, start,
            (start + Len(text)) - ((start + Len(text)) % size(T)),
            end_pre_ptr, splat(T, 0), 0,
            CountContBytes(text, start, start, end_pre_ptr, 0)))

count_chars_internal(T, text, start) ==
    CountCharsFrom(T, text, start, Min(align_ptr(start, size(T)), start + Len(text)))

count_chars(T, text, start) == count_chars_internal(T, text, start)

\* byte_to_char_idx without the saturation of past-the-end indices.
byte_to_char_idx_unsaturated(T, text, start, byte_idx) ==
    IF byte_idx = 0 THEN 0
    ELSE count_chars(T, Slice(text, 0, Min(byte_idx + 1, Len(text))), start) - 1

\* byte_to_char_idx counting the chars that start before the byte.
byte_to_char_idx_exclusive(T, text, start, byte_idx) ==
    IF byte_idx = 0 THEN 0
    ELSE IF byte_idx >= Len(text) THEN count_chars(T, text, start)
    ELSE count_chars(T, Slice(text, 0, byte_idx), start)

byte_to_char_idx(T, text, start, byte_idx) ==
    IF byte_idx = 0 THEN 0
    ELSE IF byte_idx >= Len(text) THEN count_chars(T, text, start)
    ELSE count_chars(T, Slice(text, 0, byte_idx + 1), start) - 1

\* The byte-at-a-time loops of char_to_byte_idx_inner.
RECURSIVE CharBytes(_, _, _, _, _, _)
CharBytes(text, start, stop, char_idx, ptr, char_count) ==
    IF ptr < stop /\ char_count <= char_idx
    THEN CharBytes(text, start, stop, char_idx, ptr + 1,
            char_count + (IF BitAnd(ByteAt(text, start, ptr), 192) # 128 THEN 1 ELSE 0))
    ELSE [ptr |-> ptr, char_count |-> char_count]

\* The chunk loop of char_to_byte_idx_inner, with the sum that follows it.
RECURSIVE CharMid(_, _, _, _, _, _, _, _, _)
RECURSIVE CharMidStep(_, _, _, _, _, _, _, _, _)
CharMid(T, text, start, end_mid_ptr, char_idx, ptr, acc, i, char_count) ==
    IF ptr < end_mid_ptr /\ (char_count + (size(T) * (i + 1))) <= char_idx
    THEN CharMidStep(T, text, start, end_mid_ptr, char_idx, ptr,
            add(T, acc, cmp_eq_byte(T, bitand(ChunkAt(T, text, start, ptr), splat(T, 192)), 128)),
            i + 1, char_count)
    ELSE [ptr |-> ptr, char_count |-> char_count + (size(T) * i) - sum_bytes(acc)]

CharMidStep(T, text, start, end_mid_ptr, char_idx, ptr, acc, i, char_count) ==
    IF i = max_acc(T) \/ (char_count + (size(T) * (i + 1))) > char_idx
    THEN CharMid(T, text, start, end_mid_ptr, char_idx, ptr + size(T), splat(T, 0), 0,
                 char_count + (size(T) * i) - sum_bytes(acc))
    ELSE CharMid(T, text, start, end_mid_ptr, char_idx, ptr + size(T), acc, i, char_count)

\* The result always one before the pointer, also at the end of the text.
CharFinishNoEnd(text, start, char_idx, fin) == (fin.ptr - start) - 1

CharFinish(text, start, char_idx, fin) ==
    IF fin.ptr = start + Len(text) /\ fin.char_count <= char_idx
    THEN fin.ptr - start
    ELSE (fin.ptr - start) - 1

CharAfterMid(text, start, char_idx, mid) ==
    CharFinish(text, start, char_idx,
        CharBytes(text, start, start + Len(text), char_idx, mid.ptr, mid.char_count))

CharAfterPre(T, text, start, char_idx, pre) ==
    CharAfterMid(text, start, char_idx,
        CharMid(T, text, start,
            (start + Len(text)) - ((start + Len(text)) % size(T)),
            char_idx, pre.ptr, splat(T, 0), 0, pre.char_count))

char_to_byte_idx_inner(T, text, start, char_idx) ==
    CharAfterPre(T, text, start, char_idx,
        CharBytes(text, start,
            Min(start + Len(text), start + (size(T) - (start % size(T)))),
            char_idx, start, 0))

char_to_byte_idx(T, text, start, char_idx) == char_to_byte_idx_inner(T, text, start, char_idx)

\* The texts converted: a run of one char followed by a run of another.
MaxRun == 33
MaxTail == 34

CharSet == {<<97>>, <<195, 169>>, <<227, 129, 155>>, <<240, 159, 152, 128>>}
Aligns == {0, 5}

\* The indices tried on a run of n chars of w bytes followed by m chars of
\* v bytes: around the start, the seam of the runs and the end, read as a
\* char index and as a byte index.
CharIdxs(n, w, m, v) ==
    {i \in {0, 1, n - 1, n, n + m - 1, n + m, n + m + 1,
            n * w - 1, n * w, n * w + 1, n * w + 3,
            n * w + m * v - 1, n * w + m * v, n * w + m * v + 1} : i >= 0}

CharArgs ==
    UNION {{[T |-> T, align |-> a, text |-> Rep(f, n) \o Rep(g, m), idx |-> i] :
                T \in Backends, a \in Aligns, i \in CharIdxs(n, Len(f), m, Len(g))} :
            n \in {0, 3, MaxRun}, m \in {0, MaxTail}, f \in CharSet, g \in CharSet}

Converted == DOMAIN result # {}

InitChar ==
    /\ heap = TreeEmpty.heap
    /\ root = [k \in Handles |-> TreeEmpty.root]
    /\ root_info = [k \in Handles |-> TextInfoNew]
    /\ last = [op |-> "init", st |-> "ok", valid |-> TRUE, wf |-> TRUE,
               expect |-> <<>>,
               lo |-> 0, hi |-> 0, text |-> <<>>, split |-> FALSE]
    /\ clean = TRUE
    /\ nops = 0
    /\ args \in CharArgs
    /\ result = NoArgs

\* args.idx is converted as a char index to a byte index and back, and as a
\* byte index to a char index.
Convert ==
    /\ ~Converted
    /\ LET byte == char_to_byte_idx(args.T, args.text, BaseAddr + args.align, args.idx)
       IN result' =
            [byte |-> byte,
             back |-> byte_to_char_idx(args.T, args.text, BaseAddr + args.align, byte),
             char |-> byte_to_char_idx(args.T, args.text, BaseAddr + args.align, args.idx)]
    /\ UNCHANGED <<heap, root, root_info, last, clean, nops, args>>

NextChar == Convert

SpecChar == InitChar /\ [][NextChar]_vars

-----------------------------------------------------------------------------
(* Line breaks (src/src/str_utils.rs).                                       *)

\* Next Line within a chunk whose lead byte is the last lane: counted in the
\* last lane.
NlBoundary(T, text, start, next_ptr, end_ptr, acc) ==
    IF next_ptr < end_ptr /\ ByteAt(text, start, next_ptr - 1) = 194 /\ ByteAt(text, start, next_ptr) = 133
    THEN inc_nth_from_end_lex_byte(T, acc, 0)
    ELSE acc

NlPart(T, text, start, next_ptr, end_ptr, c, acc) ==
    IF ~is_zero(cmp_eq_byte(T, c, 194))
    THEN NlBoundary(T, text, start, next_ptr, end_ptr,
            add(T, acc, bitand(cmp_eq_byte(T, c, 194), shift_back_lex(T, cmp_eq_byte(T, c, 133), 1))))
    ELSE acc

\* Line Separator and Paragraph Separator that cross the end of the chunk.
SpBoundary(T, text, start, next_ptr, end_ptr, acc) ==
    IF /\ next_ptr < end_ptr
       /\ ByteAt(text, start, next_ptr - 2) = 226
       /\ ByteAt(text, start, next_ptr - 1) = 128
       /\ ByteAt(text, start, next_ptr) \div 2 = 84
    THEN inc_nth_from_end_lex_byte(T, acc, 1)
    ELSE IF /\ next_ptr + 1 < end_ptr
            /\ ByteAt(text, start, next_ptr - 1) = 226
            /\ ByteAt(text, start, next_ptr) = 128
            /\ ByteAt(text, start, next_ptr + 1) \div 2 = 84
         THEN inc_nth_from_end_lex_byte(T, acc, 0)
         ELSE acc

SpInner(T, c, acc, sp_2_flags) ==
    IF ~is_zero(sp_2_flags)
    THEN add(T, acc, bitand(sp_2_flags,
            shift_back_lex(T, cmp_eq_byte(T, bitand(shr(c, 1), splat(T, 127)), 84), 2)))
    ELSE acc

SpPart(T, text, start, next_ptr, end_ptr, c, acc) ==
    IF ~is_zero(cmp_eq_byte(T, c, 226))
    THEN SpBoundary(T, text, start, next_ptr, end_ptr,
            SpInner(T, c, acc,
                bitand(shift_back_lex(T, cmp_eq_byte(T, c, 128), 1), cmp_eq_byte(T, c, 226))))
    ELSE acc

\* A CR in the last lane followed by an LF is taken out again.
CrBoundary(T, text, start, next_ptr, end_ptr, acc) ==
    IF next_ptr < end_ptr /\ ByteAt(text, start, next_ptr - 1) = 13 /\ ByteAt(text, start, next_ptr) = 10
    THEN dec_last_lex_byte(T, acc)
    ELSE acc

CrPart(T, text, start, next_ptr, end_ptr, c, acc) ==
    IF ~is_zero(cmp_eq_byte(T, c, 13))
    THEN CrBoundary(T, text, start, next_ptr, end_ptr,
            sub(T, acc, bitand(cmp_eq_byte(T, c, 13), shift_back_lex(T, cmp_eq_byte(T, c, 10), 1))))
    ELSE acc

ChunkBreaks(T, text, start, ptr, end_ptr, c) ==
    CrPart(T, text, start, ptr + size(T), end_ptr, c,
        add(T, SpPart(T, text, start, ptr + size(T), end_ptr, c,
                    NlPart(T, text, start, ptr + size(T), end_ptr, c, splat(T, 0))),
            bytes_between(T, c, 9, 14)))

count_line_breaks_in_chunks_from_ptr(T, text, start, ptr, end_ptr) ==
    ChunkBreaks(T, text, start, ptr, end_ptr, ChunkAt(T, text, start, ptr))

\* What one round of the byte-at-a-time loop of count_line_breaks_internal
\* adds to count.
CountAtByte(text, start, ptr, end_ptr, byte) ==
    IF byte <= 13 /\ byte >= 10
    THEN IF byte = 13 /\ ptr + 1 < end_ptr /\ ByteAt(text, start, ptr + 1) = 10 THEN 0 ELSE 1
    ELSE IF byte = 194
    THEN IF ptr + 1 < end_ptr /\ ByteAt(text, start, ptr + 1) = 133 THEN 1 ELSE 0
    ELSE IF byte = 226
    THEN IF /\ ptr + 1 < end_ptr
            /\ ptr + 2 < end_ptr
            /\ ByteAt(text, start, ptr + 1) = 128
            /\ ByteAt(text, start, ptr + 2) \div 2 = 84
         THEN 1 ELSE 0
    ELSE 0

RECURSIVE CountByteLoop(_, _, _, _, _, _)
CountByteLoop(text, start, end_ptr, end_aligned_ptr, ptr, count) ==
    IF ptr < end_aligned_ptr
    THEN CountByteLoop(text, start, end_ptr, end_aligned_ptr, ptr + 1,
            count + CountAtByte(text, start, ptr, end_ptr, ByteAt(text, start, ptr)))
    ELSE [ptr |-> ptr, count |-> count]

RECURSIVE CountChunks(_, _, _, _, _, _, _, _)
RECURSIVE CountChunksStep(_, _, _, _, _, _, _, _)
CountChunks(T, text, start, end_ptr, ptr, i, acc, count) ==
    IF ptr + size(T) < end_ptr
    THEN CountChunksStep(T, text, start, end_ptr, ptr + size(T), i + 1,
            add(T, acc, count_line_breaks_in_chunks_from_ptr(T, text, start, ptr, end_ptr)), count)
    ELSE [ptr |-> ptr, count |-> count + sum_bytes(acc)]

CountChunksStep(T, text, start, end_ptr, ptr, i, acc, count) ==
    IF i = max_acc(T)
    THEN CountChunks(T, text, start, end_ptr, ptr, 0, splat(T, 0), count + sum_bytes(acc))
    ELSE CountChunks(T, text, start, end_ptr, ptr, i, acc, count)

RECURSIVE CountOuter(_, _, _, _, _)
CountBytesTo(T, text, start, end_ptr, st) ==
    CountOuter(T, text, start, end_ptr,
        CountByteLoop(text, start, end_ptr,
            Min(next_aligned_ptr(st.ptr, size(T)), end_ptr), st.ptr, st.count))

CountOuter(T, text, start, end_ptr, st) ==
    IF st.ptr < end_ptr
    THEN CountBytesTo(T, text, start, end_ptr,
            IF st.ptr = align_ptr(st.ptr, size(T))
            THEN CountChunks(T, text, start, end_ptr, st.ptr, 0, splat(T, 0), st.count)
            ELSE st)
    ELSE st.count

count_line_breaks_internal(T, text, start) ==
    CountOuter(T, text, start, start + Len(text), [ptr |-> start, count |-> 0])

count_line_breaks(T, text, start) == count_line_breaks_internal(T, text, start)

\* What one round of the byte-at-a-time loop of line_to_byte_idx_inner adds
\* to line_break_count.
LineAtByte(text, start, ptr, end_ptr, byte) ==
    IF byte <= 13 /\ byte >= 10
    THEN IF byte = 13 /\ ptr + 1 < end_ptr /\ ByteAt(text, start, ptr + 1) = 10 THEN 0 ELSE 1
    ELSE IF byte = 194
    THEN IF ptr + 1 < end_ptr /\ ByteAt(text, start, ptr + 1) = 133 THEN 1 ELSE 0
    ELSE IF byte = 226
    THEN IF /\ ptr + 1 < end_ptr
            /\ ptr + 2 < end_ptr
            /\ ByteAt(text, start, ptr + 1) = 128
            /\ ByteAt(text, start, ptr + 2) \div 2 = 84
         THEN 1 ELSE 0
    ELSE 0

RECURSIVE LineByteLoop(_, _, _, _, _, _, _)
LineByteLoop(text, start, end_ptr, end_aligned_ptr, line_idx, ptr, line_break_count) ==
    IF ptr < end_aligned_ptr /\ line_break_count < line_idx
    THEN LineByteLoop(text, start, end_ptr, end_aligned_ptr, line_idx, ptr + 1,
            line_break_count + LineAtByte(text, start, ptr, end_ptr, ByteAt(text, start, ptr)))
    ELSE [ptr |-> ptr, count |-> line_break_count]

RECURSIVE LineChunks(_, _, _, _, _, _, _)
LineChunksStep(T, text, start, end_ptr, line_idx, ptr, line_break_count, tmp) ==
    IF tmp + line_break_count >= line_idx
    THEN [ptr |-> ptr, count |-> line_break_count]
    ELSE LineChunks(T, text, start, end_ptr, line_idx, ptr + size(T), line_break_count + tmp)

LineChunks(T, text, start, end_ptr, line_idx, ptr, line_break_count) ==
    IF ptr + size(T) < end_ptr
    THEN LineChunksStep(T, text, start, end_ptr, line_idx, ptr, line_break_count,
            sum_bytes(count_line_breaks_in_chunks_from_ptr(T, text, start, ptr, end_ptr)))
    ELSE [ptr |-> ptr, count |-> line_break_count]

\* The first char boundary at or after byte_idx.
RECURSIVE LineFinish(_, _)
LineFinish(text, byte_idx) ==
    IF IsCharBoundary(text, byte_idx) THEN byte_idx ELSE LineFinish(text, byte_idx + 1)

RECURSIVE LineOuter(_, _, _, _, _, _)
LineBytesTo(T, text, start, end_ptr, line_idx, st) ==
    LineOuter(T, text, start, end_ptr, line_idx,
        LineByteLoop(text, start, end_ptr,
            Min(next_aligned_ptr(st.ptr, size(T)), end_ptr), line_idx, st.ptr, st.count))

LineOuter(T, text, start, end_ptr, line_idx, st) ==
    IF st.ptr < end_ptr /\ st.count < line_idx
    THEN LineBytesTo(T, text, start, end_ptr, line_idx,
            IF st.ptr = align_ptr(st.ptr, size(T))
            THEN LineChunks(T, text, start, end_ptr, line_idx, st.ptr, st.count)
            ELSE st)
    ELSE LineFinish(text, st.ptr - start)

line_to_byte_idx_inner(T, text, start, line_idx) ==
    LineOuter(T, text, start, start + Len(text), line_idx, [ptr |-> start, count |-> 0])

line_to_byte_idx(T, text, start, line_idx) == line_to_byte_idx_inner(T, text, start, line_idx)

\* crlf::is_break: the offset is not between a CR and the LF that follows it.
is_break(byte_idx, text) ==
    byte_idx = 0 \/ byte_idx = Len(text) \/ ~IsCrlfSeam(text, byte_idx)

\* The last char boundary at or before byte_idx.
RECURSIVE PrevBoundary(_, _)
PrevBoundary(text, byte_idx) ==
    IF IsCharBoundary(text, byte_idx) THEN byte_idx ELSE PrevBoundary(text, byte_idx - 1)

ByteToLineAt(T, text, start, byte_idx) ==
    IF is_break(byte_idx, text)
    THEN count_line_breaks(T, Slice(text, 0, byte_idx), start)
    ELSE count_line_breaks(T, Slice(text, 0, byte_idx), start) - 1

byte_to_line_idx(T, text, start, byte_idx) ==
    ByteToLineAt(T, text, start, PrevBoundary(text, Min(byte_idx, Len(text))))

\* LineBreakIter: the offsets just after each line break, in order.
RECURSIVE LineBreakIter(_, _)
LineBreakIter(text, byte_idx) ==
    IF byte_idx >= Len(text) THEN <<>>
    ELSE IF text[byte_idx + 1] <= 13 /\ text[byte_idx + 1] >= 10
    THEN IF text[byte_idx + 1] = 13 /\ byte_idx + 1 < Len(text) /\ text[byte_idx + 2] = 10
         THEN <<byte_idx + 2>> \o LineBreakIter(text, byte_idx + 2)
         ELSE <<byte_idx + 1>> \o LineBreakIter(text, byte_idx + 1)
    ELSE IF text[byte_idx + 1] = 194
    THEN IF byte_idx + 1 < Len(text) /\ text[byte_idx + 2] = 133
         THEN <<byte_idx + 2>> \o LineBreakIter(text, byte_idx + 2)
         ELSE LineBreakIter(text, byte_idx + 2)
    ELSE IF text[byte_idx + 1] = 226
    THEN IF text[byte_idx + 2] = 128 /\ text[byte_idx + 3] \div 2 = 84
         THEN <<byte_idx + 3>> \o LineBreakIter(text, byte_idx + 3)
         ELSE LineBreakIter(text, byte_idx + 3)
    ELSE LineBreakIter(text, byte_idx + 1)

\* Rope::len_lines of a rope that holds its full info.
len_lines(info) == info.line_breaks + 1

\* Rope::line_to_byte of a rope of one chunk: the bounds assertion, then the
\* conversion within the chunk.
line_to_byte(T, text, start, info, line_idx) ==
    IF ~(line_idx <= len_lines(info)) THEN "panic"
    ELSE line_to_byte_idx(T, text, start, line_idx)

\* The texts measured: ASCII letters around two groups of bytes, the first
\* group placed back bytes before the end of the first chunk that is read as
\* a chunk; and a long text of repeated breaks.
MaxBack == 3
MaxLine == 6
MaxReps == 25

LineCores ==
    {<<10>>, <<11>>, <<12>>, <<13>>, <<13, 10>>, <<10, 13>>, <<194, 133>>,
     <<226, 128, 168>>, <<226, 128, 169>>, <<9>>, <<14>>, <<15>>,
     <<194, 169>>, <<226, 128, 161>>, <<226, 129, 168>>}

LineSeconds == {<<>>, <<13, 10>>, <<10, 11>>}

LongUnit == <<10, 97, 194, 133, 13, 10, 97, 226, 128, 168, 97>>

\* The offset at which the first chunk read as a chunk ends.
FirstChunkEnd(T, a) == IF a = 0 THEN size(T) ELSE (2 * size(T)) - a

LineArgs ==
    UNION {
        {[T |-> T, align |-> a,
          text |-> Rep(<<97>>, n) \o c1 \o Rep(<<97>>, m) \o c2 \o Rep(<<97>>, q)] :
            n \in {0} \cup {FirstChunkEnd(T, a) - back : back \in 0..MaxBack},
            m \in {0, size(T)}, q \in {0, size(T) + 1},
            c1 \in LineCores, c2 \in LineSeconds}
        \cup {[T |-> T, align |-> a, text |-> Rep(LongUnit, MaxReps)]} :
        T \in Backends, a \in Aligns}

Measured == DOMAIN result # {}

InitLine ==
    /\ heap = TreeEmpty.heap
    /\ root = [k \in Handles |-> TreeEmpty.root]
    /\ root_info = [k \in Handles |-> TextInfoNew]
    /\ last = [op |-> "init", st |-> "ok", valid |-> TRUE, wf |-> TRUE,
               expect |-> <<>>,
               lo |-> 0, hi |-> 0, text |-> <<>>, split |-> FALSE]
    /\ clean = TRUE
    /\ nops = 0
    /\ args \in LineArgs
    /\ result = NoArgs

\* The line breaks of the text are counted, the first lines are converted to
\* byte offsets, offsets at and past the end are converted to lines, and the
\* text, as a rope of one chunk, converts its line count to a byte offset.
Measure ==
    /\ ~Measured
    /\ LET breaks == count_line_breaks(args.T, args.text, BaseAddr + args.align)
       IN result' =
            [breaks |-> breaks,
             line_to_byte |->
                [k \in 0..MaxLine |->
                    line_to_byte_idx(args.T, args.text, BaseAddr + args.align, k)],
             byte_to_line |->
                [d \in 0..1 |->
                    byte_to_line_idx(args.T, args.text, BaseAddr + args.align, Len(args.text) + d)],
             rope |->
                line_to_byte(args.T, args.text, BaseAddr + args.align,
                    [line_breaks |-> breaks],
                    len_lines([line_breaks |-> breaks]))]
    /\ UNCHANGED <<heap, root, root_info, last, clean, nops, args>>

NextLine == Measure

SpecLine == InitLine /\ [][NextLine]_vars

-----------------------------------------------------------------------------
(* bytes_between on one chunk, as the line-break scanner calls it.           *)

\* A chunk of letters with the byte x in one lane.
ChunkWith(T, x, lane) == [i \in 1..size(T) |-> IF i = lane THEN x ELSE 97]

Flagged == DOMAIN result # {}

InitBetween ==
    /\ heap = TreeEmpty.heap
    /\ root = [k \in Handles |-> TreeEmpty.root]
    /\ root_info = [k \in Handles |-> TextInfoNew]
    /\ last = [op |-> "init", st |-> "ok", valid |-> TRUE, wf |-> TRUE,
               expect |-> <<>>,
               lo |-> 0, hi |-> 0, text |-> <<>>, split |-> FALSE]
    /\ clean = TRUE
    /\ nops = 0
    /\ args \in UNION {{[T |-> T, x |-> x, lane |-> lane] :
                            x \in 0..255, lane \in {1, 8, size(T)}} : T \in Backends}
    /\ result = NoArgs

\* The chunk is tested against the bounds 0x09 and 0x0E of
\* count_line_breaks_in_chunks_from_ptr.
Between ==
    /\ ~Flagged
    /\ result' = [flags |-> bytes_between(args.T, ChunkWith(args.T, args.x, args.lane), 9, 14)]
    /\ UNCHANGED <<heap, root, root_info, last, clean, nops, args>>

NextBetween == Between

SpecBetween == InitBetween /\ [][NextBetween]_vars

-----------------------------------------------------------------------------
(* Byte offsets and line indices of one text, converted both ways.           *)

\* The indices tried on a text of len bytes whose first group of bytes
\* starts at offset p: around the start, the group and the end, read as a
\* byte offset and as a line index.
LineIdxs(p, len) ==
    {i \in {0, 1, 2, p - 1, p, p + 1, p + 2, p + 3, p + 4, len, len + 1} : i >= 0}

LineConverted == DOMAIN result # {}

InitByteLine ==
    /\ heap = TreeEmpty.heap
    /\ root = [k \in Handles |-> TreeEmpty.root]
    /\ root_info = [k \in Handles |-> TextInfoNew]
    /\ last = [op |-> "init", st |-> "ok", valid |-> TRUE, wf |-> TRUE,
               expect |-> <<>>,
               lo |-> 0, hi |-> 0, text |-> <<>>, split |-> FALSE]
    /\ clean = TRUE
    /\ nops = 0
    /\ args \in
        UNION {
            UNION {
                {[T |-> T, align |-> a, text |-> Rep(<<97>>, n) \o c1 \o c2 \o Rep(<<97>>, q), idx |-> i] :
                    i \in LineIdxs(n, n + Len(c1) + Len(c2) + q)} :
                n \in {0} \cup {FirstChunkEnd(T, a) - back : back \in 0..MaxBack},
                q \in {2}, c1 \in LineCores, c2 \in LineSeconds} :
            T \in Backends, a \in Aligns}
    /\ result = NoArgs

\* args.idx is converted as a byte offset to a line index and back, and as a
\* line index to a byte offset and back.
ConvertLine ==
    /\ ~LineConverted
    /\ LET line == byte_to_line_idx(args.T, args.text, BaseAddr + args.align, args.idx)
           byte == line_to_byte_idx(args.T, args.text, BaseAddr + args.align, args.idx)
       IN result' =
            [line |-> line,
             back_byte |-> line_to_byte_idx(args.T, args.text, BaseAddr + args.align, line),
             byte |-> byte,
             back_line |-> byte_to_line_idx(args.T, args.text, BaseAddr + args.align, byte)]
    /\ UNCHANGED <<heap, root, root_info, last, clean, nops, args>>

NextByteLine == ConvertLine

SpecByteLine == InitByteLine /\ [][NextByteLine]_vars

-----------------------------------------------------------------------------
(* A rope or a slice of it (src/src/shared_impl.rs): a root node, the byte   *)
(* range of the root's text the handle shows, and whether the handle holds   *)
(* the info of its whole text (a rope does, a slice does not).               *)

\* len_bytes.
len_bytes(range) == range[2] - range[1]

\* str_utils::byte_is_lf: there is a byte at the offset and it is an LF.
byte_is_lf(text, byte_idx) == byte_idx < Len(text) /\ text[byte_idx + 1] = LF

\* TextInfo::adjusted_by_next_is_lf: a CR at the end of the text is not a
\* line break of its own when the byte after the text is an LF.
adjusted_by_next_is_lf(info, next_is_lf) ==
    IF info.ends_with_cr /\ next_is_lf
    THEN [info EXCEPT !.line_breaks = info.line_breaks - 1]
    ELSE info

\* TextInfo - TextInfo: the counts of what is left of a text when a prefix of
\* it is taken away.
TextInfoSub(a, b) ==
    [a EXCEPT !.bytes = a.bytes - b.bytes,
              !.chars = a.chars - b.chars,
              !.line_breaks = a.line_breaks - b.line_breaks]

RECURSIVE get_text_at_byte(_, _, _, _)
\* Node::get_text_at_byte: the walk from a node to the leaf that holds the
\* offset, which is relative to the node; acc is the info of the text to the
\* left of the node.  Yields the info of the text to the left of the leaf,
\* the leaf's text and the offset within it.
get_text_at_byte(h, id, byte_idx, acc) ==
    IF h[id].leaf THEN [info |-> acc, text |-> h[id].text, off |-> byte_idx]
    ELSE LET f == SearchByteIdxOnly(h[id].info, byte_idx)
         IN  get_text_at_byte(h, h[id].nodes[f.i], byte_idx - f.acc,
                    TextInfoAppend(acc,
                        CombinedTextInfo(SubSeq(h[id].info, 1, f.i - 1))))

\* Node::text_info_at_byte: the info of the text before the offset.
text_info_at_byte(h, id, byte_idx) ==
    LET g == get_text_at_byte(h, id, byte_idx, TextInfoNew)
    IN  TextInfoAppend(g.info,
            adjusted_by_next_is_lf(TextInfoFromStr(Slice(g.text, 0, g.off)),
                                   byte_is_lf(g.text, g.off)))

\* A variant of FrontTrimIdx that never trims the front of a chunk.
FrontTrimIdxNone(range, left_bytes) == 0

\* The offset in the chunk at which the slice begins:
\* range[0].saturating_sub(left_info.bytes).
FrontTrimIdx(range, left_bytes) == Max(range[1] - left_bytes, 0)

\* The chunk of a slice, cut to the slice's range, and the info of the
\* slice's text to the left of it.  The subtraction and the cut panic on an
\* end before the start.
ChunkTrimmed(h, id, range, g, front_trim_idx) ==
    IF range[2] < g.info.bytes THEN [st |-> "panic"]
    ELSE LET back_trim_idx == Min(range[2] - g.info.bytes, Len(g.text))
             new_left_info ==
                TextInfoAppend(g.info,
                    adjusted_by_next_is_lf(
                        TextInfoFromStr(Slice(g.text, 0, front_trim_idx)),
                        byte_is_lf(g.text, front_trim_idx)))
         IN  IF \/ front_trim_idx > back_trim_idx
                \/ ~IsCharBoundary(g.text, front_trim_idx)
                \/ ~IsCharBoundary(g.text, back_trim_idx)
             THEN [st |-> "panic"]
             ELSE [st |-> "ok",
                   chunk |-> Slice(g.text, front_trim_idx, back_trim_idx),
                   info |-> TextInfoSub(new_left_info,
                                text_info_at_byte(h, id, range[1]))]

\* chunk_at_byte.
chunk_at_byte(h, id, full, range, byte_idx) ==
    IF byte_idx > len_bytes(range) THEN [st |-> "panic"]
    ELSE LET g == get_text_at_byte(h, id, range[1] + byte_idx, TextInfoNew)
         IN  IF full THEN [st |-> "ok", chunk |-> g.text, info |-> g.info]
             ELSE ChunkTrimmed(h, id, range, g,
                               FrontTrimIdx(range, g.info.bytes))

RECURSIVE ChunksFrom(_, _, _)
\* The chunk iterator of a handle: the texts of the leaves that overlap the
\* byte range, each cut to the range; at is the offset of the first leaf of
\* the list.
ChunksFrom(leaves, range, at) ==
    IF leaves = <<>> THEN <<>>
    ELSE LET t == Head(leaves)
             lo == Min(Max(range[1] - at, 0), Len(t))
             hi == Min(Max(range[2] - at, 0), Len(t))
             rest == ChunksFrom(Tail(leaves), range, at + Len(t))
         IN  IF lo < hi THEN <<Slice(t, lo, hi)>> \o rest ELSE rest

chunks(h, id, range) == ChunksFrom(Leaves(h, id), range, 0)

\* From<&rope> for String: the chunks, one after the other.
StringFrom(h, id, range) == Flat(chunks(h, id, range))

\* From<&rope> for Option<&str>: the text of a root that is a leaf.
OptionStrFrom(h, id) ==
    IF h[id].leaf THEN [some |-> TRUE, text |-> h[id].text]
    ELSE [some |-> FALSE, text |-> <<>>]

\* From<&rope> for Cow<str>: the borrowed text of a root that is a leaf, the
\* owned string otherwise.
CowFrom(h, id, range) ==
    IF h[id].leaf THEN [owned |-> FALSE, text |-> h[id].text]
    ELSE [owned |-> TRUE, text |-> StringFrom(h, id, range)]

\* The handles looked at: a rope shows the whole text of its root, a slice a
\* byte range between two char boundaries of it.
Views(text) ==
    LET bs == {i \in 0..Len(text) : IsCharBoundary(text, i)}
    IN  {[full |-> TRUE, range |-> <<0, Len(text)>>]}
            \cup {v \in {[full |-> FALSE, range |-> <<s, e>>] :
                            s \in bs, e \in bs} : v.range[1] <= v.range[2]}

ChunkFetched == DOMAIN result # {} /\ result.op = "chunk_at_byte"

ViewConverted == DOMAIN result # {} /\ result.op = "from"

InitView ==
    \E t \in InitTrees :
        /\ heap = t.heap
        /\ root = [k \in Handles |-> t.root]
        /\ root_info = [k \in Handles |-> InfoOf(t.heap, t.root)]
        /\ last = [op |-> "init", st |-> "ok", valid |-> TRUE, wf |-> TRUE,
                   expect |-> TreeText(t.heap, t.root),
                   lo |-> 0, hi |-> 0, text |-> <<>>, split |-> FALSE]
        /\ clean = TRUE
        /\ nops = 0
        /\ args \in Views(TreeText(t.heap, t.root))
        /\ result = NoArgs

ChunkAtByte ==
    /\ result = NoArgs
    /\ \E byte_idx \in 0..len_bytes(args.range) :
        result' = [op |-> "chunk_at_byte", byte_idx |-> byte_idx]
                    @@ chunk_at_byte(heap, root[1], args.full, args.range,
                                     byte_idx)
    /\ UNCHANGED <<heap, root, root_info, last, clean, nops, args>>

Conversions ==
    /\ result = NoArgs
    /\ result' = [op |-> "from",
                  string |-> StringFrom(heap, root[1], args.range),
                  option |-> OptionStrFrom(heap, root[1]),
                  cow |-> CowFrom(heap, root[1], args.range)]
    /\ UNCHANGED <<heap, root, root_info, last, clean, nops, args>>

NextView == ChunkAtByte \/ Conversions

SpecView == InitView /\ [][NextView]_vars

-----------------------------------------------------------------------------
(* One insertion into one leaf, with inserted texts that hold chars of up    *)
(* to four bytes.                                                            *)

\* The chars of the leaves: "a" and U+1F600 (four bytes).
LeafChars == {<<97>>, <<240, 159, 152, 128>>}

RECURSIVE TextsOver(_, _)
\* The texts of at most n bytes made of the chars cs.
TextsOver(cs, n) ==
    {<<>>} \cup UNION {{c \o t : t \in TextsOver(cs, n - Len(c))} :
                          c \in {x \in cs : Len(x) <= n}}

\* The leaves: every text of "a" and U+1F600 that a leaf can hold, and four
\* full or nearly full leaves with CR+LF pairs and chars of two and three
\* bytes.
LeafTexts ==
    TextsOver(LeafChars, MAX_BYTES)
        \cup {<<97, 98, 13, 10, 99, 100, 195, 169, 101>>,
              <<13, 10, 13, 10, 13, 10, 13, 10>>,
              <<97, 13, 10, 226, 130, 172, 226, 130, 172>>,
              <<195, 169, 195, 169, 13, 10, 195, 169, 13>>}

\* The inserted texts: every text of "x" and U+1F600 of at most MAX_BYTES - 4
\* bytes, and texts with line breaks and chars of two and three bytes.
LeafInsTexts ==
    TextsOver({<<120>>, <<240, 159, 152, 128>>}, MAX_BYTES - 4)
        \cup {<<10>>, <<13>>, <<120, 195, 169, 13, 10>>,
              <<195, 169, 226, 130, 172>>, <<226, 130, 172, 195, 169>>,
              <<10, 240, 159, 152, 128>>}

\* The texts of the one or two leaves an insertion into a leaf has left.
LeavesAfter(r) ==
    IF r.st # "ok" THEN <<>>
    ELSE IF r.res = 0 THEN <<r.heap[r.self].text>>
    ELSE <<r.heap[r.self].text, r.heap[r.res].text>>

LeafInserted == DOMAIN result # {}

InitLeaf ==
    /\ args \in
        UNION {{[leaf |-> s, byte_idx |-> i, text |-> t] :
                    i \in 0..Len(s), t \in LeafInsTexts} : s \in LeafTexts}
    /\ heap = (1 :> LeafObj(args.leaf))
    /\ root = [k \in Handles |-> 1]
    /\ root_info = [k \in Handles |-> TextInfoFromStr(args.leaf)]
    /\ last = [op |-> "init", st |-> "ok", valid |-> TRUE, wf |-> TRUE,
               expect |-> args.leaf,
               lo |-> 0, hi |-> 0, text |-> <<>>, split |-> FALSE]
    /\ clean = TRUE
    /\ nops = 0
    /\ result = NoArgs

LeafInsertCall ==
    /\ result = NoArgs
    /\ LET r == InsertAtByteIdx(heap, root[1], args.byte_idx, args.text)
       IN  result' = [st |-> r.st, leaves |-> LeavesAfter(r)]
    /\ UNCHANGED <<heap, root, root_info, last, clean, nops, args>>

NextLeaf == LeafInsertCall

SpecLeaf == InitLeaf /\ [][NextLeaf]_vars

-----------------------------------------------------------------------------
(* The claims.                                                              *)

\* The text handle 1 holds.
Text1 == TreeText(heap, root[1])

\* The last call was made on a well-formed tree with inputs the claim covers.
Covered(op) == last.op = op /\ last.wf /\ last.valid

\* C1: an insertion at a char boundary succeeds and leaves the leaves
\* (the residual node's included) spelling s[..i] ++ t ++ s[i..].
C1_InsertIsStringEdit ==
    Covered("insert") => (last.st = "ok" /\ Text1 = last.expect)

\* C2: a removal of a range on char boundaries that does not cover the whole
\* node succeeds and leaves the leaves spelling s[..lo] ++ s[hi..].
C2_RemoveIsStringEdit ==
    Covered("remove") => (last.st = "ok" /\ Text1 = last.expect)

\* C3: after successful calls only, every stored child info is the info of
\* that child's text, and the info the call returned is that of the whole
\* text.
C3_InfoAccurate == clean => WellFormed(heap, root[1], root_info[1])

\* C4: all leaves stay at equal depth.
C4_EqualLeafDepth == EqualLeafDepth(heap, root[1])

\* C5: every internal node but the root has MIN_CHILDREN..MAX_CHILDREN
\* children, and every leaf but a sole one has MIN_BYTES..MAX_BYTES bytes.
C5_SizeBounds ==
    \A o \in Reach(heap, root[1]) :
        \/ o = root[1]
        \/ IF heap[o].leaf
           THEN Len(heap[o].text) >= MIN_BYTES /\ Len(heap[o].text) <= MAX_BYTES
           ELSE Len(heap[o].nodes) >= MIN_CHILDREN
                    /\ Len(heap[o].nodes) <= MAX_CHILDREN

\* No leaf ends with a CR while its right neighbour starts with an LF.
NoCrlfSeam(ls) ==
    \A j \in 1..(Len(ls) - 1) :
        ~(/\ Len(ls[j]) > 0
          /\ Len(ls[j + 1]) > 0
          /\ ls[j][Len(ls[j])] = CR
          /\ ls[j + 1][1] = LF)

\* C6: no leaf boundary falls between a CR and an LF.
C6_NoCrlfSeam == NoCrlfSeam(Leaves(heap, root[1]))


\* The tree of handle 1 before and after a step, text and cached infos.
Tree1Same ==
    /\ TreeVal(heap', root'[1]) = TreeVal(heap, root[1])
    /\ root_info'[1] = root_info[1]

\* C7: an insertion at an index that is no char boundary, into a tree whose
\* cached infos are accurate, returns Err, and an insertion that returns Err
\* changes no leaf text and no cached info at any depth.
C7_InsertErrIsNoOp ==
    [][last'.op = "insert" =>
        /\ (last'.wf /\ ~last'.valid) => last'.st = "err"
        /\ last'.st = "err" => Tree1Same]_vars

\* C8: a removal with an endpoint that is no char boundary, from a tree whose
\* cached infos are accurate, returns Err, and a removal that returns Err
\* changes no leaf text and no cached info at any depth.
C8_RemoveErrIsNoOp ==
    [][last'.op = "remove" =>
        /\ (last'.wf /\ ~last'.valid) => last'.st = "err"
        /\ last'.st = "err" => Tree1Same]_vars

\* C9: calls made through handle 1, successful or not, change neither the
\* text nor any cached info reachable from handle 2.
C9_OtherHandleUnchanged ==
    [][/\ root'[2] = root[2]
       /\ root_info'[2] = root_info[2]
       /\ TreeVal(heap', root'[2]) = TreeVal(heap, root[2])]_vars


\* C10: two ropes compare equal exactly when their texts are the same byte
\* sequence, however the texts are cut into chunks, and a rope compares
\* equal to a string exactly when its text is that string.
C10_EqIsTextEq ==
    Compared =>
        /\ result.eq = (Flat(args.a) = Flat(args.b))
        /\ result.eq_str = (Flat(args.a) = Flat(args.b))

\* Two ropes of the same text in different chunk layouts, one of them with
\* an empty chunk, have compared equal.
C10_Witness ==
    /\ Compared
    /\ result.eq /\ result.eq_str
    /\ args.a # args.b
    /\ Len(Flat(args.a)) = MaxTextLen
    /\ \E i \in 1..Len(args.a) : args.a[i] = <<>>
    /\ Len(args.b) >= 2


\* C11: cmp on two ropes is the lexicographic byte-wise ordering of their
\* texts, wherever the chunk boundaries fall.
C11_CmpIsTextCmp ==
    Compared => result.cmp = SliceCmp(Flat(args.a), Flat(args.b))

\* C12: the writes of a hash are the text cut at consecutive multiples of
\* the block size, each block full but possibly the last, none empty, then
\* one write of the byte 0xff, whatever the chunk layout.
C12_HashWrites ==
    Hashed =>
        /\ result.writes = Blocks(Flat(args.a)) \o << <<255>> >>
        /\ \A i \in 1..Len(result.writes) : result.writes[i] # <<>>
        /\ \A i \in 1..(Len(result.writes) - 2) :
               Len(result.writes[i]) = BLOCK_SIZE

\* A rope of more than two blocks has been hashed whose first chunk ends
\* inside a block and whose later chunks cross a block boundary.
C12_Witness ==
    /\ Hashed
    /\ Len(args.a) >= 2
    /\ Len(args.a[1]) % BLOCK_SIZE # 0
    /\ Len(args.a[1]) > 0
    /\ Len(Flat(args.a)) > 2 * BLOCK_SIZE
    /\ Len(result.writes) >= 4

\* C13: append is associative on the infos of texts, the empty text and a
\* lone CR or LF included.
C13_AppendAssociative == Summarised => result.ab_c = result.a_bc

\* A CR and an LF with an empty text between them have been appended: the
\* join correction has to reach across the empty info.
C13_Witness ==
    /\ Summarised
    /\ args.a = <<CR>> /\ args.b = <<>> /\ args.c = <<LF>>
    /\ result.ab_c.line_breaks = 1

\* C14: for a text cut in two at a char boundary, the infos of the parts
\* appended are the info of the text, in every field.
C14_AppendIsFromStr == Summarised => result.ab = result.whole

\* A text has been cut between a CR and its LF.
C14_Witness ==
    /\ Summarised
    /\ Len(args.a) = 3 /\ args.a[3] = CR
    /\ Len(args.b) = 3 /\ args.b[1] = LF
    /\ result.whole.line_breaks = 1

\* The number of chars that start in the first k bytes of a text.
CharsStartingIn(text, k) == Cardinality({j \in 1..k : ~IsCont(text[j])})

\* C15: a char index n <= count_chars(text) converts to the byte offset at
\* which the n-th char starts (n chars start before it and it is a char
\* boundary), and that offset converts back to n.
C15_CharByteRoundTrip ==
    (Converted /\ args.idx <= CharsStartingIn(args.text, Len(args.text)))
        => /\ result.back = args.idx
           /\ result.byte \in 0..Len(args.text)
           /\ IsCharBoundary(args.text, result.byte)
           /\ CharsStartingIn(args.text, result.byte) = args.idx

\* A char index past the first chunks of a text of multi-byte chars.
C15_Witness ==
    /\ Converted
    /\ args.idx <= CharsStartingIn(args.text, Len(args.text))
    /\ args.idx > size(args.T)
    /\ result.byte > args.idx
    /\ result.byte > 2 * size(args.T)

\* C16: a byte index b < len(text) converts to the index of the char whose
\* encoding contains byte b.
C16_ByteToContainingChar ==
    (Converted /\ args.idx < Len(args.text))
        => result.char = CharsStartingIn(args.text, args.idx + 1) - 1

\* A byte in the middle of a multi-byte char, past the first chunks.
C16_Witness ==
    /\ Converted
    /\ args.idx < Len(args.text)
    /\ args.idx > 2 * size(args.T)
    /\ IsCont(args.text[args.idx + 1])

\* C17: byte_to_char_idx gives count_chars(text) for every byte index >= len,
\* and char_to_byte_idx gives len for every char index >= count_chars(text).
C17_CharSaturates ==
    /\ (Converted /\ args.idx >= Len(args.text))
            => result.char = CharsStartingIn(args.text, Len(args.text))
    /\ (Converted /\ args.idx >= CharsStartingIn(args.text, Len(args.text)))
            => result.byte = Len(args.text)

\* An index past the end of a text longer than two chunks.
C17_Witness ==
    /\ Converted
    /\ args.idx > Len(args.text)
    /\ Len(args.text) > 2 * size(args.T)
    /\ CharsStartingIn(args.text, Len(args.text)) < Len(args.text)

\* The offsets just after the line breaks of the text of args.
ArgBreaks == LineBreakIter(args.text, 0)

\* C18: byte_to_line_idx gives the number of line breaks for every byte index
\* >= len, line_to_byte_idx gives len for every line index greater than the
\* number of line breaks, and a rope's line_to_byte(len_lines) returns
\* len_bytes without failing the bounds assertion.
C18_LineSaturates ==
    Measured =>
        /\ \A d \in DOMAIN result.byte_to_line : result.byte_to_line[d] = Len(ArgBreaks)
        /\ \A k \in DOMAIN result.line_to_byte :
                k > Len(ArgBreaks) => result.line_to_byte[k] = Len(args.text)
        /\ result.rope = Len(args.text)

\* C19: for 1 <= k <= number of line breaks, line_to_byte_idx gives the
\* offset just after the k-th line break, a char boundary; line 0 starts at
\* offset 0.
C19_LineToByteAfterBreak ==
    Measured =>
        /\ result.line_to_byte[0] = 0
        /\ \A k \in DOMAIN result.line_to_byte :
                (1 <= k /\ k <= Len(ArgBreaks))
                    => /\ result.line_to_byte[k] = ArgBreaks[k]
                       /\ IsCharBoundary(args.text, result.line_to_byte[k])

\* C20: count_line_breaks gives the number of breaks LineBreakIter yields,
\* whichever the backend and the alignment.
C20_CountIsLineBreakIter ==
    Measured => result.breaks = Len(ArgBreaks)

\* C28: cmp gives Equal exactly when the two ropes are equal, and
\* a.cmp(b) is the reverse of b.cmp(a), whatever the chunk layouts.
C28_OrdEqConsistent ==
    Compared =>
        /\ (result.cmp = "Equal") = result.eq
        /\ result.cmp = Reverse(result.cmp_rev)

\* C30: on every backend a lane of bytes_between(0x09, 0x0E) is 1 exactly
\* when its byte x satisfies 0x09 < x < 0x0E, and 0 otherwise, for every
\* byte value.
C30_BytesBetweenExclusive ==
    Flagged =>
        \A i \in DOMAIN result.flags :
            result.flags[i] =
                (IF i = args.lane /\ 9 < args.x /\ args.x < 14 THEN 1 ELSE 0)

\* C21: a line index up to the number of line breaks converts to a byte
\* offset that converts back to it, and a byte offset that starts a line (0
\* or the offset just after a line break) converts to a line index that
\* converts back to it.
C21_LineByteRoundTrip ==
    LineConverted =>
        /\ args.idx <= Len(ArgBreaks) => result.back_line = args.idx
        /\ (args.idx = 0 \/ \E k \in 1..Len(ArgBreaks) : ArgBreaks[k] = args.idx)
                => result.back_byte = args.idx

\* C27: byte_to_line_idx gives the number of line breaks that end at or
\* before the byte offset, once clamped to the length and moved back to a
\* char boundary; an offset between a CR and its LF is on the line before
\* that break, and the result is never below zero.
C27_ByteToLineCountsBreaks ==
    LineConverted =>
        /\ result.line >= 0
        /\ result.line =
            Cardinality({k \in 1..Len(ArgBreaks) :
                ArgBreaks[k] <= PrevBoundary(args.text, Min(args.idx, Len(args.text)))})

\* The text a handle shows.
ViewText == Slice(TreeText(heap, root[1]), args.range[1], args.range[2])

\* C22: for a rope or a slice with text T and every byte_idx <= len_bytes,
\* chunk_at_byte(byte_idx) returns a chunk c and an info L with
\* L.bytes <= byte_idx <= L.bytes + len(c) and c == T[L.bytes .. L.bytes +
\* len(c)], so the chunk stays within the slice's byte range, and the byte
\* and char counts of L are those of T[.. L.bytes].
C22_ChunkAtByte ==
    ChunkFetched =>
        /\ result.st = "ok"
        /\ 0 <= result.info.bytes
        /\ result.info.bytes <= result.byte_idx
        /\ result.byte_idx <= result.info.bytes + Len(result.chunk)
        /\ result.info.bytes + Len(result.chunk) <= Len(ViewText)
        /\ result.chunk = Slice(ViewText, result.info.bytes, result.info.bytes + Len(result.chunk))
        /\ result.info.chars = TextInfoFromStr(Slice(ViewText, 0, result.info.bytes)).chars

\* A slice that begins and ends inside one leaf of a tree of several leaves:
\* the chunk is cut at both ends.
C22_Witness ==
    /\ ChunkFetched
    /\ ~args.full
    /\ ~heap[root[1]].leaf
    /\ result.st = "ok"
    /\ result.info.bytes = 0
    /\ Len(result.chunk) = Len(ViewText)
    /\ Len(result.chunk) > 0
    /\ \E t \in {Leaves(heap, root[1])[k] : k \in 1..Len(Leaves(heap, root[1]))} : Len(t) >= Len(result.chunk) + 2

\* C29: the borrowed conversions of a rope or a slice agree with the owned
\* one: when the conversion to Option<&str> gives Some(t), t is the String
\* of the handle, and the text of the Cow<str> is that String, also for a
\* slice narrower than the single root leaf.
C29_BorrowedIsOwned ==
    ViewConverted =>
        /\ result.option.some => result.option.text = result.string
        /\ result.cow.text = result.string

\* C23: for every leaf of at most MAX_BYTES bytes, every char boundary
\* byte_idx within it and every inserted text of at most MAX_BYTES - 4 bytes,
\* insert_at_byte_idx does not panic and none of the one or two leaves it
\* leaves holds more than MAX_BYTES bytes, also when find_split_l backs off
\* by up to three bytes.
C23_LeafInsertWithinCapacity ==
    (LeafInserted /\ IsCharBoundary(args.leaf, args.byte_idx)) =>
        /\ result.st = "ok"
        /\ \A k \in DOMAIN result.leaves : Len(result.leaves[k]) <= MAX_BYTES

\* A full leaf split by a text of which find_split_l gives three bytes less
\* than the free space to the left-hand side.
C23_Witness ==
    /\ LeafInserted
    /\ result.st = "ok"
    /\ Len(result.leaves) = 2
    /\ Len(args.leaf) = MAX_BYTES
    /\ Len(args.text) = MAX_BYTES - 4
    /\ FreeCapacity(TextSplit(args.leaf, args.byte_idx).l) < Len(args.text)
    /\ FindSplitL(FreeCapacity(TextSplit(args.leaf, args.byte_idx).l), args.text) = FreeCapacity(TextSplit(args.leaf, args.byte_idx).l) - 3

\* C24: from a tree within the size bounds, successful insertions alone keep
\* it within them; in particular an insertion that splits a leaf leaves both
\* leaves with between MIN_BYTES and MAX_BYTES bytes.
C24_InsertKeepsSizeBounds ==
    (LeafInserted /\ result.st = "ok" /\ Len(result.leaves) = 2) =>
        \A k \in DOMAIN result.leaves :
            /\ Len(result.leaves[k]) >= MIN_BYTES
            /\ Len(result.leaves[k]) <= MAX_BYTES

RECURSIVE InsertPath(_, _, _)
\* The nodes from a node down to the leaf an insertion at byte_idx edits.
InsertPath(h, id, byte_idx) ==
    IF h[id].leaf \/ Len(h[id].nodes) = 0 THEN {id}
    ELSE LET f == SearchByteIdxOnly(h[id].info, byte_idx)
         IN  {id} \cup InsertPath(h, h[id].nodes[f.i], byte_idx - f.acc)

RECURSIVE RemovePath(_, _, _, _)
\* The nodes from a node down to the one or two leaves of which a removal of
\* [lo, hi) cuts a part; a child that goes as a whole is not entered.
RemovePath(h, id, lo, hi) ==
    IF h[id].leaf \/ Len(h[id].nodes) = 0 THEN {id}
    ELSE LET c == h[id]
             sf == SearchByteIdxOnly(c.info, lo)
             ef == SearchByteIdxOnly(c.info, hi)
             s == lo - sf.acc
             e == hi - ef.acc
         IN  {id} \cup
             IF sf.i = ef.i
             THEN IF s = 0 /\ e = c.info[sf.i].bytes THEN {}
                  ELSE RemovePath(h, c.nodes[sf.i], s, e)
             ELSE (IF s = 0 THEN {}
                   ELSE RemovePath(h, c.nodes[sf.i], s, c.info[sf.i].bytes))
                  \cup (IF e = c.info[ef.i].bytes THEN {}
                        ELSE RemovePath(h, c.nodes[ef.i], 0, e))

\* The path of the call a step makes, in the tree before the step.
EditedPath ==
    IF last'.op = "insert" THEN InsertPath(heap, root[1], last'.lo)
    ELSE RemovePath(heap, root[1], last'.lo, last'.hi)

\* The nodes a successful call has added to the tree: those of a split.
Grown ==
    IF last'.op = "insert"
    THEN Cardinality(Reach(heap', root'[1])) - Cardinality(Reach(heap, root[1]))
    ELSE 0

\* C25: a call through one of two handles that share nodes copies a node only
\* if the node lies on the path from the root to an edited leaf and is shared
\* at that moment; a node off that path stays the same allocation, unchanged
\* and held by both trees as before, and a node on the path that only the
\* calling handle holds is edited in place.
C25_CopyOnlySharedPath ==
    [][last'.st = "ok" =>
        /\ Cardinality(DOMAIN heap' \ DOMAIN heap) = Cardinality(EditedPath \cap Reach(heap, root[2])) + Grown
        /\ (EditedPath \ Reach(heap, root[2])) \subseteq Reach(heap', root'[1])
        /\ \A n \in Reach(heap, root[1]) \ EditedPath :
            /\ n \in DOMAIN heap' => heap'[n] = heap[n]
            /\ n \in Reach(heap, root[2]) => n \in Reach(heap', root'[2])
            /\ last'.op = "insert" => n \in Reach(heap', root'[1])]_vars

\* After two successful calls, the second of them an insertion that has
\* split nothing: the handles have different roots, still share an internal
\* node, and handle 1 holds a leaf of its own.
C25_Witness ==
    /\ nops = 2
    /\ clean
    /\ last.op = "insert"
    /\ last.split = FALSE
    /\ root[1] # root[2]
    /\ \E n \in Reach(heap, root[1]) \cap Reach(heap, root[2]) : ~heap[n].leaf
    /\ \E n \in Reach(heap, root[1]) \ Reach(heap, root[2]) : heap[n].leaf

\* assert_no_empty_internal and assert_no_empty_leaf run through: no internal
\* node without children, no leaf without text.
NoEmptyNode(h, id) ==
    \A o \in Reach(h, id) :
        IF h[o].leaf THEN Len(h[o].text) > 0 ELSE Len(h[o].nodes) > 0

\* C26: a removal from an internal node of a range within its text that does
\* not cover the whole text never reaches a leaf with a range that covers
\* the whole leaf (the debug assertion holds), and it produces no empty leaf
\* and no empty internal node: a child that is covered as a whole is taken
\* out of its parent.
C26_NoEmptyNode ==
    [][(/\ last'.op = "remove"
        /\ ~heap[root[1]].leaf
        /\ NoEmptyNode(heap, root[1])
        /\ last'.hi <= Len(TreeText(heap, root[1]))
        /\ ~(last'.lo = 0 /\ last'.hi = Len(TreeText(heap, root[1])))) =>
            /\ last'.st # "panic"
            /\ NoEmptyNode(heap', root'[1])]_vars

-----------------------------------------------------------------------------
(* Reachable states in which the cases of the claims have happened.          *)

Text2 == TreeText(heap, root[2])

\* A strictly deeper node than the root exists that is no leaf.
Deep(h, rt) == \E o \in Reach(h, rt) : o # rt /\ ~h[o].leaf

\* A successful removal on the original text, from inside one leaf to inside
\* another, that took at least two whole leaves out of the tree.
C2_Witness ==
    /\ Covered("remove")
    /\ last.st = "ok"
    /\ last.lo > 0
    /\ last.expect = TextRemove(Text2, last.lo, last.hi)
    /\ Text1 = last.expect
    /\ Len(Leaves(heap, root[1])) + 2 <= Len(Leaves(heap, root[2]))

\* Only successful calls so far, the last one a removal, an earlier one an
\* insertion that split a leaf, and the tree has internal nodes.
C3_Witness ==
    /\ clean
    /\ last.op = "remove"
    /\ last.hi > last.lo
    /\ ~heap[root[1]].leaf
    /\ Len(Leaves(heap, root[1])) > Len(Leaves(heap, root[2]))

\* An insertion inside a character of a leaf two levels below the root has
\* returned Err.
C7_Witness ==
    /\ last.op = "insert"
    /\ last.st = "err"
    /\ last.wf
    /\ ~last.valid
    /\ Deep(heap, root[1])

\* Handle 1 has been edited and holds another text than handle 2, the two
\* trees have different roots and still share a node.
C9_Witness ==
    /\ nops >= 1
    /\ last.st = "ok"
    /\ root[1] # root[2]
    /\ Text1 # Text2
    /\ Reach(heap, root[1]) \cap Reach(heap, root[2]) # {}

=============================================================================
